---- MODULE Spec2Model ----
(***************************************************************************)
(* Verification model of the AML screening core of banking-aml-service:    *)
(* the screening engine (Engine.Screen and its five concurrent checks),    *)
(* the OFAC / PEP checkers, the risk calculator and the level / decision   *)
(* mappings.                                                               *)
(*                                                                         *)
(* Strings that the code inspects character by character (names) are       *)
(* sequences of one-character strings.  Monetary amounts, velocity         *)
(* baselines and the spike multiplier are float64 in the code; the model   *)
(* uses whole numbers, for which every comparison made by the code is      *)
(* exact in float64.  A pattern confidence is kept in tenths (9 = 0.9).    *)
(***************************************************************************)
EXTENDS Integers, Sequences, FiniteSets, TLC

VARIABLES
    env,             \* the transaction, the loaded lists and the collaborators' answers
    sctx,            \* the ScreeningContext of the running Screen call
    exactIndex,      \* OFACChecker.exactIndex
    pepIndex,        \* PEPChecker.pepIndex
    pc,              \* position of each of the five check goroutines
    local,           \* local variables of each check goroutine
    mu,              \* owner of ScreeningContext.mu
    ctxDone,         \* screenCtx is done (deadline expired or caller cancelled)
    mainPc,          \* position of the goroutine running Screen
    result,          \* the *ScreeningResult built by calculateResult
    ret,             \* what Screen returned to its caller
    screeningCount,  \* Engine.screeningCount
    score,           \* input of the level / decision mappings
    mapped,          \* their outputs
    arg,             \* arguments of a call of a checker or of a pure function
    out,             \* what that call returned
    indexMu,         \* OFACChecker.indexMu / PEPChecker.indexMu
    latencyMu,       \* Engine.latencyMu
    avgLatencyMs     \* Engine.avgLatencyMs

vars == <<env, sctx, exactIndex, pepIndex, pc, local, mu, ctxDone, mainPc,
          result, ret, screeningCount, score, mapped, arg, out,
          indexMu, latencyMu, avgLatencyMs>>

(***************************************************************************)
(* Bounds of the model                                                     *)
(***************************************************************************)
MaxScoreInput == 104
MaxFactors == 2
MaxTokens == 4
MaxJWLen == 3

(***************************************************************************)
(* Values                                                                  *)
(***************************************************************************)
Nil == [nil |-> TRUE]              \* a nil pointer / nil slice / nil error
Err == [err |-> TRUE]              \* a non-nil error
NotCalled == [called |-> FALSE]    \* a collaborator method that was not invoked

Checks == {"ofac", "pep", "profile", "velocity", "patterns"}
Nobody == "nobody"

\* a sync.RWMutex: the task holding it for writing, the tasks holding it for
\* reading, the tasks that called Lock and wait for the readers to leave
Unlocked == [writer |-> Nobody, readers |-> {}, waiting |-> {}]

\* GoDiv: Go's integer division truncates toward zero
GoDiv(a, b) == IF a >= 0 THEN a \div b ELSE -((-a) \div b)

min(a, b) == IF a < b THEN a ELSE b

RECURSIVE SumWeights_SkipLast(_)
SumWeights_SkipLast(fs) ==
    IF Len(fs) <= 1 THEN 0 ELSE Head(fs).Weight + SumWeights_SkipLast(Tail(fs))

RECURSIVE SumWeights(_)
SumWeights(fs) == IF fs = <<>> THEN 0 ELSE Head(fs).Weight + SumWeights(Tail(fs))

(***************************************************************************)
(* domain.Transaction                                                      *)
(***************************************************************************)
GetCounterpartyName_AlwaysReceiver(t) == t.ReceiverName

GetCounterpartyName(t) ==
    IF t.Direction = "OUTBOUND" THEN t.ReceiverName ELSE t.SenderName

GetCounterpartyCountry(t) ==
    IF t.Direction = "OUTBOUND" THEN t.ReceiverCountry ELSE t.SenderCountry

IsCrossBorder(t) ==
    t.SenderCountry # "" /\ t.ReceiverCountry # "" /\ t.SenderCountry # t.ReceiverCountry

IsHighValue(t, threshold) == t.Amount >= threshold

(***************************************************************************)
(* domain.CalculateRiskLevel / domain.CalculateDecision                    *)
(***************************************************************************)
CalculateRiskLevel_Shifted(s) ==
    IF s > 80 THEN "CRITICAL"
    ELSE IF s > 60 THEN "HIGH"
    ELSE IF s > 30 THEN "MEDIUM"
    ELSE "LOW"

CalculateRiskLevel(s) ==
    IF s >= 80 THEN "CRITICAL"
    ELSE IF s >= 60 THEN "HIGH"
    ELSE IF s >= 30 THEN "MEDIUM"
    ELSE "LOW"

CalculateDecision(s) ==
    IF s >= 80 THEN "BLOCKED"
    ELSE IF s >= 50 THEN "SUSPICIOUS"
    ELSE "APPROVED"

(***************************************************************************)
(* screening.RiskCalculator                                                *)
(***************************************************************************)
HighRiskCountries == {"IR", "KP", "SY", "CU", "VE", "MM", "BY", "RU"}
VelocitySpikeMultiplier == 10

isHighRiskCountry(country) ==
    IF country = "" THEN FALSE ELSE country \in HighRiskCountries

\* ratio >= m, for ratio = num / den with den > 0, is num >= m * den
calculateVelocityRisk(velocity, t) ==
    LET amountPart ==
            IF velocity.AvgDailyAmount > 0
            THEN IF velocity.AmountDay + t.Amount >= VelocitySpikeMultiplier * velocity.AvgDailyAmount
                 THEN 20
                 ELSE IF velocity.AmountDay + t.Amount >= 5 * velocity.AvgDailyAmount
                      THEN 10 ELSE 0
            ELSE 0
        countPart ==
            IF velocity.AvgDailyTxCount > 0
            THEN IF velocity.TxCountDay + 1 >= VelocitySpikeMultiplier * velocity.AvgDailyTxCount
                 THEN 10 ELSE 0
            ELSE 0
    IN  amountPart + countPart

calculateProfileRisk_SingleDivision(profile) ==
    LET baseScore == GoDiv(profile.CountryRisk + profile.OccupationRisk
                           + profile.TransactionRisk + profile.BehavioralRisk
                           + profile.RelationshipRisk, 5)
        blocked == IF profile.BlockedTxCount > 0
                   THEN min(profile.BlockedTxCount * 5, 15) ELSE 0
        invest  == IF profile.InvestigationCount > 0
                   THEN min(profile.InvestigationCount * 3, 10) ELSE 0
    IN  baseScore + blocked + invest

calculateProfileRisk(profile) ==
    LET baseScore == GoDiv(profile.CountryRisk + profile.OccupationRisk
                           + profile.TransactionRisk + profile.BehavioralRisk
                           + profile.RelationshipRisk, 5)
        blocked == IF profile.BlockedTxCount > 0
                   THEN min(profile.BlockedTxCount * 5, 15) ELSE 0
        invest  == IF profile.InvestigationCount > 0
                   THEN min(profile.InvestigationCount * 3, 10) ELSE 0
    IN  GoDiv(baseScore, 5) + blocked + invest

\* the accumulated total before the cap
RawScore(c) ==
    LET t == c.Transaction
    IN  SumWeights(c.RiskFactors)
        + (IF isHighRiskCountry(GetCounterpartyCountry(t)) THEN 20 ELSE 0)
        + (IF IsCrossBorder(t) THEN 5 ELSE 0)
        + (IF IsHighValue(t, 10000) THEN (IF t.Amount >= 50000 THEN 15 ELSE 10) ELSE 0)
        + (IF c.VelocityData # Nil THEN calculateVelocityRisk(c.VelocityData, t) ELSE 0)
        + (IF c.RiskProfile # Nil THEN calculateProfileRisk(c.RiskProfile) ELSE 0)

Calculate_NoFloor(c) ==
    IF RawScore(c) > 100 THEN 100 ELSE RawScore(c)

Calculate(c) ==
    LET capped == IF RawScore(c) > 100 THEN 100 ELSE RawScore(c)
    IN  IF capped < 0 THEN 0 ELSE capped

(***************************************************************************)
(* screening.normalizeName                                                 *)
(***************************************************************************)
UpperRunes == <<"A", "D", "F", "L", "M", "O", "P", "R", "S">>
LowerRunes == <<"a", "d", "f", "l", "m", "o", "p", "r", "s">>
Digits == {"1", "7"}

Range(f) == {f[i] : i \in DOMAIN f}

IsLetter(r) == r \in Range(UpperRunes) \cup Range(LowerRunes)
IsNumber(r) == r \in Digits

\* strings.ToLower, one rune
ToLowerRune(r) ==
    IF r \in Range(UpperRunes)
    THEN LowerRunes[CHOOSE i \in DOMAIN UpperRunes : UpperRunes[i] = r]
    ELSE r

ToLower(s) == [i \in 1..Len(s) |-> ToLowerRune(s[i])]

\* strings.TrimPrefix
TrimPrefix(s, prefix) ==
    IF Len(s) >= Len(prefix) /\ SubSeq(s, 1, Len(prefix)) = prefix
    THEN SubSeq(s, Len(prefix) + 1, Len(s))
    ELSE s

prefixes == << <<"m", "r", ".">>, <<"m", "r", "s", ".">>, <<"m", "s", ".">>,
               <<"d", "r", ".">>, <<"p", "r", "o", "f", ".">> >>

\* the loop over the prefixes: each is trimmed once, in list order
RECURSIVE TrimPrefixes(_, _)
TrimPrefixes(s, ps) ==
    IF ps = <<>> THEN s ELSE TrimPrefixes(TrimPrefix(s, Head(ps)), Tail(ps))

KeepRune_WithDot(r) == IsLetter(r) \/ IsNumber(r) \/ r = " " \/ r = "."

KeepRune(r) == IsLetter(r) \/ IsNumber(r) \/ r = " "

\* strings.Fields: the maximal runs of non-space runes
RECURSIVE Fields(_, _, _)
Fields(s, cur, acc) ==
    IF s = <<>> THEN (IF cur = <<>> THEN acc ELSE Append(acc, cur))
    ELSE IF Head(s) = " "
         THEN Fields(Tail(s), <<>>, IF cur = <<>> THEN acc ELSE Append(acc, cur))
         ELSE Fields(Tail(s), Append(cur, Head(s)), acc)

\* strings.Join(words, " ")
RECURSIVE Join(_)
Join(words) ==
    IF words = <<>> THEN <<>>
    ELSE IF Len(words) = 1 THEN Head(words)
    ELSE Head(words) \o <<" ">> \o Join(Tail(words))

normalizeName(name) ==
    LET lowered == ToLower(name)
        trimmed == TrimPrefixes(lowered, prefixes)
        kept    == SelectSeq(trimmed, KeepRune)
    IN  Join(Fields(kept, <<>>, <<>>))

(***************************************************************************)
(* The in-memory indexes: OFACChecker.LoadIndex / PEPChecker.LoadIndex     *)
(***************************************************************************)
EmptyIndex == [k \in {} |-> Nil]

Put(index, key, entry) ==
    [k \in DOMAIN index \cup {key} |-> IF k = key THEN entry ELSE index[k]]

IndexAliases_Skipped(index, aliases, entry) == index

RECURSIVE IndexAliases(_, _, _)
IndexAliases(index, aliases, entry) ==
    IF aliases = <<>> THEN index
    ELSE IndexAliases(Put(index, normalizeName(Head(aliases)), entry), Tail(aliases), entry)

RECURSIVE IndexEntries(_, _)
IndexEntries(index, entries) ==
    IF entries = <<>> THEN index
    ELSE LET e == Head(entries)
         IN  IndexEntries(IndexAliases(Put(index, e.NormalizedName, e), e.Aliases, e),
                          Tail(entries))

\* the map LoadIndex installs for the entries GetAllEntries returned
LoadIndex(entries) == IndexEntries(EmptyIndex, entries)

\* exactMatch: (entry, found)
exactMatch(index, normalizedName) ==
    IF normalizedName \in DOMAIN index
    THEN [entry |-> index[normalizedName], found |-> TRUE]
    ELSE [entry |-> Nil, found |-> FALSE]

(***************************************************************************)
(* screening.jaroWinkler.  A float64 is kept as the exact fraction         *)
(* num / den with den > 0.                                                 *)
(***************************************************************************)
Frac(n, d) == [num |-> n, den |-> d]
One == Frac(1, 1)
Zero == Frac(0, 1)

FracGeq(a, b) == a.num * b.den >= b.num * a.den
FracEq(a, b) == a.num * b.den = b.num * a.den

max(a, b) == IF a > b THEN a ELSE b

\* screening.fuzzy_match_threshold, handed to GetByFuzzyName
FuzzyThreshold == Frac(85, 100)

SetMin(S) == CHOOSE x \in S : \A y \in S : x <= y

\* the first loop: for each position i of s1 in turn, the first unmatched
\* position j of s2 inside the window that holds the same byte is matched
RECURSIVE MatchLoop(_, _, _, _, _, _)
MatchLoop(s1, s2, matchDistance, i, s1Matches, s2Matches) ==
    IF i > Len(s1) THEN [s1Matches |-> s1Matches, s2Matches |-> s2Matches]
    ELSE LET start == max(0, (i - 1) - matchDistance)
             end   == min((i - 1) + matchDistance + 1, Len(s2))
             cand  == {j \in (start + 1)..end : j \notin s2Matches /\ s1[i] = s2[j]}
         IN  IF cand = {}
             THEN MatchLoop(s1, s2, matchDistance, i + 1, s1Matches, s2Matches)
             ELSE MatchLoop(s1, s2, matchDistance, i + 1,
                            s1Matches \cup {i}, s2Matches \cup {SetMin(cand)})

\* the matched positions in increasing order
RECURSIVE InOrder(_)
InOrder(S) == IF S = {} THEN <<>> ELSE <<SetMin(S)>> \o InOrder(S \ {SetMin(S)})

\* the second loop: the n-th matched byte of s1 against the n-th of s2
Transpositions(s1, s2, s1Matches, s2Matches) ==
    LET a == InOrder(s1Matches)
        b == InOrder(s2Matches)
    IN  Cardinality({n \in DOMAIN a : s1[a[n]] # s2[b[n]]})

\* the length of the common prefix, at most 4
RECURSIVE Prefix(_, _, _)
Prefix(s1, s2, i) ==
    IF i > min(4, min(Len(s1), Len(s2))) THEN 0
    ELSE IF s1[i] = s2[i] THEN 1 + Prefix(s1, s2, i + 1) ELSE 0

jaroWinkler(s1, s2) ==
    IF s1 = s2 THEN One
    ELSE IF Len(s1) = 0 \/ Len(s2) = 0 THEN Zero
    ELSE LET half == GoDiv(max(Len(s1), Len(s2)), 2) - 1
             matchDistance == IF half < 0 THEN 0 ELSE half
             m == MatchLoop(s1, s2, matchDistance, 1, {}, {})
             matches == Cardinality(m.s1Matches)
             transpositions == Transpositions(s1, s2, m.s1Matches, m.s2Matches)
             \* (matches/len1 + matches/len2 + (matches - transpositions/2)/matches) / 3
             jaroNum == matches * matches * Len(s2) + matches * matches * Len(s1)
                        + (matches - GoDiv(transpositions, 2)) * Len(s1) * Len(s2)
             jaroDen == 3 * Len(s1) * Len(s2) * matches
             prefix == Prefix(s1, s2, 1)
         IN  IF matches = 0 THEN Zero
             \* jaro + prefix * 0.1 * (1 - jaro)
             ELSE Frac(10 * jaroNum + prefix * (jaroDen - jaroNum), 10 * jaroDen)

(***************************************************************************)
(* screening.OFACChecker.Check                                             *)
(* cacheExact / cacheFuzzy are the (value, error) answers the sanctions     *)
(* cache gives to GetByExactName / GetByFuzzyName if they are called.  The *)
(* value is the returned (match, error) with the cache calls made.         *)
(***************************************************************************)
NoOFACMatch == [Matched |-> FALSE, MatchScore |-> Zero, MatchType |-> "", SDNName |-> <<>>]

OFACHit(entry, type, matchScore) ==
    [Matched |-> TRUE, MatchScore |-> matchScore, MatchType |-> type, SDNName |-> entry.Name]

OFACCheck(name, index, cacheExact, cacheFuzzy) ==
    IF name = <<>>
    THEN [res |-> NoOFACMatch, err |-> Nil, exact |-> NotCalled, fuzzy |-> NotCalled]
    ELSE LET normalizedName == normalizeName(name)
             m == exactMatch(index, normalizedName)
         IN  IF m.found
             THEN [res |-> OFACHit(m.entry, "EXACT", One), err |-> Nil,
                   exact |-> NotCalled, fuzzy |-> NotCalled]
             ELSE IF cacheExact.err = Nil /\ cacheExact.res # Nil
             THEN [res |-> OFACHit(cacheExact.res, "EXACT", One), err |-> Nil,
                   exact |-> cacheExact, fuzzy |-> NotCalled]
             ELSE IF cacheFuzzy.err = Nil /\ Len(cacheFuzzy.res) > 0
             THEN [res |-> OFACHit(cacheFuzzy.res[1], "FUZZY",
                                   jaroWinkler(normalizedName,
                                               cacheFuzzy.res[1].NormalizedName)),
                   err |-> Nil,
                   exact |-> cacheExact, fuzzy |-> cacheFuzzy]
             ELSE [res |-> NoOFACMatch, err |-> Nil,
                   exact |-> cacheExact, fuzzy |-> cacheFuzzy]

(***************************************************************************)
(* screening.PEPChecker                                                    *)
(***************************************************************************)
highRiskPositions ==
    {"head of state", "head of government", "minister", "military general", "senior judge"}

determineRiskCategory(entry) ==
    IF ~entry.IsActive THEN "FORMER_PEP"
    ELSE IF entry.Position \in highRiskPositions THEN "HIGH_RISK_PEP"
    ELSE IF entry.Category = "foreign" THEN "FOREIGN_PEP"
    ELSE "DOMESTIC_PEP"

NoPEPMatch == [Matched |-> FALSE, MatchScore |-> Zero, MatchType |-> "", PEPName |-> <<>>,
               PEPPosition |-> "", RiskCategory |-> ""]

PEPHit(entry, type, matchScore) ==
    [Matched |-> TRUE, MatchScore |-> matchScore, MatchType |-> type, PEPName |-> entry.Name,
     PEPPosition |-> entry.Position, RiskCategory |-> determineRiskCategory(entry)]

PEPCheck(name, index, cacheExact, cacheFuzzy) ==
    IF name = <<>>
    THEN [res |-> NoPEPMatch, err |-> Nil, exact |-> NotCalled, fuzzy |-> NotCalled]
    ELSE LET normalizedName == normalizeName(name)
             m == exactMatch(index, normalizedName)
         IN  IF m.found
             THEN [res |-> PEPHit(m.entry, "EXACT", One), err |-> Nil,
                   exact |-> NotCalled, fuzzy |-> NotCalled]
             ELSE IF cacheExact.err = Nil /\ cacheExact.res # Nil
             THEN [res |-> PEPHit(cacheExact.res, "EXACT", One), err |-> Nil,
                   exact |-> cacheExact, fuzzy |-> NotCalled]
             ELSE IF cacheFuzzy.err = Nil /\ Len(cacheFuzzy.res) > 0
             THEN [res |-> PEPHit(cacheFuzzy.res[1], "FUZZY",
                                  jaroWinkler(normalizedName,
                                              cacheFuzzy.res[1].NormalizedName)),
                   err |-> Nil,
                   exact |-> cacheExact, fuzzy |-> cacheFuzzy]
             ELSE [res |-> NoPEPMatch, err |-> Nil,
                   exact |-> cacheExact, fuzzy |-> cacheFuzzy]

(***************************************************************************)
(* Inputs of the model: transactions, list entries, collaborator answers   *)
(***************************************************************************)
NameAl == <<"A", "l">>

Tx(direction, senderName, receiverName, senderCountry, receiverCountry, amount) ==
    [Direction |-> direction, SenderName |-> senderName, ReceiverName |-> receiverName,
     SenderCountry |-> senderCountry, ReceiverCountry |-> receiverCountry,
     Amount |-> amount]

TxHigh   == Tx("OUTBOUND", <<>>, NameAl, "US", "IR", 75000)
TxClean  == Tx("OUTBOUND", <<>>, NameAl, "US", "US", 250)
TxNoName == Tx("INBOUND", <<>>, NameAl, "US", "US", 250)
TxBelow  == Tx("OUTBOUND", <<>>, NameAl, "US", "US", 9500)

SDNAl == [EntityID |-> "sdn-1", Name |-> NameAl, NormalizedName |-> <<"a", "l">>,
          Type |-> "Individual", Program |-> "SDGT", Aliases |-> <<>>]

PEPAl == [ID |-> "pep-1", Name |-> NameAl, NormalizedName |-> <<"a", "l">>,
          Position |-> "minister", Country |-> "IR", Category |-> "foreign",
          IsActive |-> TRUE, Aliases |-> <<>>, Associates |-> <<>>]

\* answers of the sanctions / PEP cache: a (value, error) pair each
Failed(zero) == [res |-> zero, err |-> Err]
Answer(value) == [res |-> value, err |-> Nil]

Profile(watch, pep, sars, sub, blocked, invest) ==
    [OnWatchlist |-> watch, IsPEP |-> pep, SARCount |-> sars,
     CountryRisk |-> sub, OccupationRisk |-> sub, TransactionRisk |-> sub,
     BehavioralRisk |-> sub, RelationshipRisk |-> sub,
     BlockedTxCount |-> blocked, InvestigationCount |-> invest]

ProfileRisky == Profile(TRUE, TRUE, 2, 80, 4, 5)
ProfileClean == Profile(FALSE, FALSE, 0, 10, 0, 0)
ProfileUneven == [ProfileClean EXCEPT !.CountryRisk = 93, !.OccupationRisk = 41,
                                      !.BlockedTxCount = 1, !.InvestigationCount = 2]

Velocity(amountDay, avgAmount, countDay, avgCount) ==
    [AmountDay |-> amountDay, AvgDailyAmount |-> avgAmount,
     TxCountDay |-> countDay, AvgDailyTxCount |-> avgCount]

VelocitySpike == Velocity(8000, 500, 3, 2)
VelocityCalm  == Velocity(100, 500, 19, 2)

Structuring9 == [PatternType |-> "STRUCTURING", Confidence |-> 9]

\* An environment of one Screen call: the transaction, the lists loaded into
\* the in-memory indexes, and the answer each collaborator method gives:
\* GetByExactName / GetByFuzzyName of the sanctions cache, GetByName /
\* GetByFuzzyName of the PEP cache, RiskProfileRepository.GetByUserID,
\* VelocityCache.GetVelocity and PatternDetector.DetectPatterns.
Env(t, ofacList, pepList, oe, of, pe, pf, pr, ve, pa) ==
    [tx |-> t, ofacList |-> ofacList, pepList |-> pepList,
     ofacExact |-> oe, ofacFuzzy |-> of, pepExact |-> pe, pepFuzzy |-> pf,
     profile |-> pr, velocity |-> ve, patterns |-> pa]

\* every combination of the five collaborators failing or succeeding
OutcomeEnvs ==
    {Env(TxHigh, <<>>, <<>>, oe, Failed(<<>>), pe, Failed(<<>>), pr, ve, pa) :
        oe \in {Failed(Nil), Answer(SDNAl)},
        pe \in {Failed(Nil), Answer(PEPAl)},
        pr \in {Failed(Nil), Answer(ProfileRisky)},
        ve \in {Failed(Nil), Answer(VelocitySpike)},
        pa \in {Failed(<<>>), Answer(<<Structuring9>>)}}

\* hits in the in-memory indexes, fuzzy hits, no hits, a user without a
\* profile, a transaction without a counterparty name, a structuring pattern
\* on an otherwise unremarkable transaction
OtherEnvs ==
    {Env(TxHigh, <<SDNAl>>, <<PEPAl>>, Failed(Nil), Failed(<<>>), Failed(Nil), Failed(<<>>),
         Answer(ProfileRisky), Answer(VelocitySpike), Answer(<<Structuring9>>)),
     Env(TxClean, <<>>, <<>>, Answer(Nil), Answer(<<SDNAl>>), Answer(Nil), Answer(<<PEPAl>>),
         Answer(ProfileClean), Answer(VelocityCalm), Answer(<<Structuring9>>)),
     Env(TxClean, <<>>, <<>>, Failed(Nil), Answer(<<SDNAl>>), Failed(Nil), Answer(<<>>),
         Failed(Nil), Failed(Nil), Failed(<<>>)),
     Env(TxClean, <<>>, <<>>, Answer(Nil), Answer(<<>>), Answer(Nil), Answer(<<>>),
         Answer(ProfileClean), Answer(VelocityCalm), Answer(<<>>)),
     Env(TxClean, <<>>, <<>>, Answer(Nil), Answer(<<>>), Answer(Nil), Answer(<<>>),
         Answer(Nil), Answer(VelocityCalm), Answer(<<>>)),
     Env(TxNoName, <<SDNAl>>, <<PEPAl>>, Answer(SDNAl), Failed(<<>>), Answer(PEPAl), Failed(<<>>),
         Answer(ProfileRisky), Answer(VelocitySpike), Answer(<<Structuring9>>)),
     Env(TxBelow, <<>>, <<>>, Answer(Nil), Answer(<<>>), Answer(Nil), Answer(<<>>),
         Failed(Nil), Failed(Nil), Answer(<<Structuring9>>))}

Envs == OutcomeEnvs \cup OtherEnvs

(***************************************************************************)
(* screening.Engine: the ScreeningContext and the five checks              *)
(***************************************************************************)
\* the context Screen allocates for tx
NewContext(t) ==
    [Transaction |-> t, OFACResult |-> Nil, PEPResult |-> Nil, RiskProfile |-> Nil,
     VelocityData |-> Nil, PatternMatches |-> <<>>, RiskFactors |-> <<>>]

\* the zero values of a check's local variables (a nil slice for detectPatterns)
NoLocal(t) ==
    [res |-> IF t = "patterns" THEN <<>> ELSE Nil, err |-> Nil,
     exact |-> NotCalled, fuzzy |-> NotCalled, rf |-> <<>>]

Factor(tag, weight) == [Factor |-> tag, Weight |-> weight]

\* int(p.Confidence * 30), the confidence given in tenths
PatternWeight(confidence) == GoDiv(confidence * 30, 10)

\* the risk factors a check appends inside its critical section
NewFactors(t, res) ==
    CASE t = "ofac"     -> IF res.Matched THEN <<Factor("OFAC_MATCH", 50)>> ELSE <<>>
      [] t = "pep"      -> IF res.Matched THEN <<Factor("PEP_MATCH", 30)>> ELSE <<>>
      [] t = "profile"  -> (IF res.OnWatchlist THEN <<Factor("USER_WATCHLIST", 25)>> ELSE <<>>)
                           \o (IF res.IsPEP THEN <<Factor("USER_PEP", 20)>> ELSE <<>>)
                           \o (IF res.SARCount > 0 THEN <<Factor("PRIOR_SARS", 15)>> ELSE <<>>)
      [] t = "velocity" -> <<>>
      [] t = "patterns" -> [i \in 1..Len(res) |->
                               Factor(res[i].PatternType, PatternWeight(res[i].Confidence))]

\* the context field a check assigns inside its critical section
AssignField(c, t, res) ==
    CASE t = "ofac"     -> [c EXCEPT !.OFACResult = res]
      [] t = "pep"      -> [c EXCEPT !.PEPResult = res]
      [] t = "profile"  -> [c EXCEPT !.RiskProfile = res]
      [] t = "velocity" -> [c EXCEPT !.VelocityData = res]
      [] t = "patterns" -> [c EXCEPT !.PatternMatches = res]

\* sync.Mutex.Lock proceeds only when nobody holds the mutex
MutexFree_Ignored(owner) == TRUE

MutexFree(owner) == owner = Nobody

\* where a check goes after its checker returned: `if err != nil { return nil }`,
\* then result.CheckDurationMs is written through the returned pointer
afterCheck(res, err) ==
    IF err # Nil THEN "done" ELSE IF res = Nil THEN "panic" ELSE "lock"

\* where a check goes after its collaborator returned: `if err != nil { return nil }`
afterFetch_NoErrTest(res, err) == "lock"

afterFetch(res, err) == IF err # Nil THEN "done" ELSE "lock"

runOFACCheck ==
    /\ pc["ofac"] = "start"
    /\ LET name == GetCounterpartyName(sctx.Transaction)
       IN  IF name = <<>>
           THEN /\ pc' = [pc EXCEPT !["ofac"] = "done"]
                /\ UNCHANGED local
           ELSE LET r == OFACCheck(name, exactIndex, env.ofacExact, env.ofacFuzzy)
                    IN  /\ local' = [local EXCEPT !["ofac"] =
                                        [res |-> r.res, err |-> r.err, exact |-> r.exact,
                                         fuzzy |-> r.fuzzy, rf |-> <<>>]]
                        /\ pc' = [pc EXCEPT !["ofac"] = afterCheck(r.res, r.err)]
    /\ UNCHANGED <<indexMu, latencyMu, avgLatencyMs, arg, out, env, sctx, exactIndex, pepIndex, mu, ctxDone, mainPc, result, ret,
                   screeningCount, score, mapped>>

runPEPCheck ==
    /\ pc["pep"] = "start"
    /\ LET name == GetCounterpartyName(sctx.Transaction)
       IN  IF name = <<>>
           THEN /\ pc' = [pc EXCEPT !["pep"] = "done"]
                /\ UNCHANGED local
           ELSE LET r == PEPCheck(name, pepIndex, env.pepExact, env.pepFuzzy)
                    IN  /\ local' = [local EXCEPT !["pep"] =
                                        [res |-> r.res, err |-> r.err, exact |-> r.exact,
                                         fuzzy |-> r.fuzzy, rf |-> <<>>]]
                        /\ pc' = [pc EXCEPT !["pep"] = afterCheck(r.res, r.err)]
    /\ UNCHANGED <<indexMu, latencyMu, avgLatencyMs, arg, out, env, sctx, exactIndex, pepIndex, mu, ctxDone, mainPc, result, ret,
                   screeningCount, score, mapped>>

\* the collaborator call of getRiskProfile, getVelocityData or detectPatterns
Fetch(t, a) ==
    /\ pc[t] = "start"
    /\ local' = [local EXCEPT ![t] = [NoLocal(t) EXCEPT !.res = a.res, !.err = a.err]]
    /\ pc' = [pc EXCEPT ![t] = afterFetch(a.res, a.err)]
    /\ UNCHANGED <<indexMu, latencyMu, avgLatencyMs, arg, out, env, sctx, exactIndex, pepIndex, mu, ctxDone, mainPc, result, ret,
                   screeningCount, score, mapped>>

getRiskProfile  == Fetch("profile", env.profile)
getVelocityData == Fetch("velocity", env.velocity)
detectPatterns  == Fetch("patterns", env.patterns)

\* sctx.mu.Lock() of a check
Lock(t) ==
    /\ pc[t] = "lock"
    /\ MutexFree(mu)
    /\ mu' = t
    /\ pc' = [pc EXCEPT ![t] = "assign"]
    /\ UNCHANGED <<indexMu, latencyMu, avgLatencyMs, arg, out, env, sctx, exactIndex, pepIndex, local, ctxDone, mainPc, result, ret,
                   screeningCount, score, mapped>>

\* the assignment of the check's field; the slice header of sctx.RiskFactors is
\* read for the append that follows.  getRiskProfile reads profile.OnWatchlist
\* through the pointer it was given.
Assign(t) ==
    /\ pc[t] = "assign"
    /\ sctx' = AssignField(sctx, t, local[t].res)
    /\ local' = [local EXCEPT ![t].rf = sctx.RiskFactors]
    /\ pc' = [pc EXCEPT ![t] = IF t = "profile" /\ local[t].res = Nil
                                THEN "panic" ELSE "append"]
    /\ UNCHANGED <<indexMu, latencyMu, avgLatencyMs, arg, out, env, exactIndex, pepIndex, mu, ctxDone, mainPc, result, ret,
                   screeningCount, score, mapped>>

\* sctx.RiskFactors = append(sctx.RiskFactors, ...): the write of the new slice
AppendFactors(t) ==
    /\ pc[t] = "append"
    /\ LET new == NewFactors(t, local[t].res)
       IN  sctx' = IF new = <<>> THEN sctx
                   ELSE [sctx EXCEPT !.RiskFactors = local[t].rf \o new]
    /\ pc' = [pc EXCEPT ![t] = "unlock"]
    /\ UNCHANGED <<indexMu, latencyMu, avgLatencyMs, arg, out, env, exactIndex, pepIndex, local, mu, ctxDone, mainPc, result, ret,
                   screeningCount, score, mapped>>

\* sctx.mu.Unlock() of a check, and its return to the errgroup
Unlock(t) ==
    /\ pc[t] = "unlock"
    /\ mu' = Nobody
    /\ pc' = [pc EXCEPT ![t] = "done"]
    /\ UNCHANGED <<indexMu, latencyMu, avgLatencyMs, arg, out, env, sctx, exactIndex, pepIndex, local, ctxDone, mainPc, result, ret,
                   screeningCount, score, mapped>>

\* the deadline of screenCtx expires, or the caller cancels its context
Deadline ==
    /\ ~ctxDone
    /\ mainPc \notin {"returned", "crashed"}
    /\ ctxDone' = TRUE
    /\ UNCHANGED <<indexMu, latencyMu, avgLatencyMs, arg, out, env, sctx, exactIndex, pepIndex, pc, local, mu, mainPc, result, ret,
                   screeningCount, score, mapped>>

\* the exponential moving average of recordLatency, as an exact fraction:
\* avgLatencyMs*0.9 + durationMs*0.1
MovingAverage(avg, durationMs) == Frac(9 * avg.num + durationMs * avg.den, 10 * avg.den)

\* durations of a Screen call in milliseconds, inside and beyond the budget
Durations == {12, 250}

(***************************************************************************)
(* screening.Engine: Screen, calculateResult, recordLatency                *)
(***************************************************************************)
\* g.Wait(): every goroutine of the errgroup has returned.  The state of the
\* context (done) is not consulted.
WaitReturns_OrDeadline(p, done) == done \/ \A t \in Checks : p[t] = "done"

WaitReturns(p, done) == \A t \in Checks : p[t] = "done"

BaseResult(c) ==
    LET riskScore == Calculate(c)
    IN  [RiskScore |-> riskScore,
         RiskLevel |-> CalculateRiskLevel(riskScore),
         Decision |-> CalculateDecision(riskScore),
         OFACMatch |-> c.OFACResult,
         PEPMatch |-> c.PEPResult,
         RiskFactors |-> c.RiskFactors,
         PatternMatches |-> c.PatternMatches]

ExactOFAC(c) ==
    c.OFACResult # Nil /\ c.OFACResult.Matched /\ c.OFACResult.MatchType = "EXACT"

calculateResult_NoOverride(c) == BaseResult(c)

calculateResult_StaleLevel(c) ==
    IF ExactOFAC(c)
    THEN [BaseResult(c) EXCEPT !.Decision = "BLOCKED", !.RiskScore = 100]
    ELSE BaseResult(c)

calculateResult(c) ==
    IF ExactOFAC(c)
    THEN [BaseResult(c) EXCEPT !.Decision = "BLOCKED", !.RiskScore = 100,
                               !.RiskLevel = "CRITICAL"]
    ELSE BaseResult(c)

\* g.Wait() returns
Wait ==
    /\ mainPc = "wait"
    /\ WaitReturns(pc, ctxDone)
    /\ mainPc' = "score_lock"
    /\ UNCHANGED <<indexMu, latencyMu, avgLatencyMs, arg, out, env, sctx, exactIndex, pepIndex, pc, local, mu, ctxDone, result, ret,
                   screeningCount, score, mapped>>

\* calculateResult: sctx.mu.Lock()
ScoreLock ==
    /\ mainPc = "score_lock"
    /\ MutexFree(mu)
    /\ mu' = "main"
    /\ mainPc' = "score"
    /\ UNCHANGED <<indexMu, latencyMu, avgLatencyMs, arg, out, env, sctx, exactIndex, pepIndex, pc, local, ctxDone, result, ret,
                   screeningCount, score, mapped>>

\* calculateResult: the body
Score ==
    /\ mainPc = "score"
    /\ result' = calculateResult(sctx)
    /\ mainPc' = "score_unlock"
    /\ UNCHANGED <<indexMu, latencyMu, avgLatencyMs, arg, out, env, sctx, exactIndex, pepIndex, pc, local, mu, ctxDone, ret,
                   screeningCount, score, mapped>>

\* calculateResult: the deferred sctx.mu.Unlock()
ScoreUnlock ==
    /\ mainPc = "score_unlock"
    /\ mu' = Nobody
    /\ mainPc' = "record"
    /\ UNCHANGED <<indexMu, latencyMu, avgLatencyMs, arg, out, env, sctx, exactIndex, pepIndex, pc, local, ctxDone, result, ret,
                   screeningCount, score, mapped>>

\* recordLatency, called with the milliseconds since Screen started
recordLatency ==
    /\ mainPc = "record"
    /\ screeningCount' = screeningCount + 1
    /\ \E durationMs \in Durations : avgLatencyMs' = MovingAverage(avgLatencyMs, durationMs)
    /\ mainPc' = "return"
    /\ UNCHANGED <<indexMu, latencyMu, arg, out, env, sctx, exactIndex, pepIndex, pc, local, mu, ctxDone, result, ret,
                   score, mapped>>

\* return result, nil
Return ==
    /\ mainPc = "return"
    /\ ret' = [result |-> result, err |-> Nil]
    /\ mainPc' = "returned"
    /\ UNCHANGED <<indexMu, latencyMu, avgLatencyMs, arg, out, env, sctx, exactIndex, pepIndex, pc, local, mu, ctxDone, result,
                   screeningCount, score, mapped>>

\* a panic in a check goroutine is not recovered: Screen does not return
Crash ==
    /\ mainPc \notin {"crashed", "returned"}
    /\ \E t \in Checks : pc[t] = "panic"
    /\ mainPc' = "crashed"
    /\ UNCHANGED <<indexMu, latencyMu, avgLatencyMs, arg, out, env, sctx, exactIndex, pepIndex, pc, local, mu, ctxDone, result, ret,
                   screeningCount, score, mapped>>

(***************************************************************************)
(* Spec: one call of Screen, from the allocation of its context            *)
(***************************************************************************)
Init ==
    /\ env \in Envs
    /\ sctx = NewContext(env.tx)
    /\ exactIndex = LoadIndex(env.ofacList)
    /\ pepIndex = LoadIndex(env.pepList)
    /\ pc = [t \in Checks |-> "start"]
    /\ local = [t \in Checks |-> NoLocal(t)]
    /\ mu = Nobody
    /\ ctxDone = FALSE
    /\ mainPc = "wait"
    /\ result = Nil
    /\ ret = Nil
    /\ screeningCount = 0
    /\ score = 0
    /\ mapped = Nil
    /\ arg = Nil
    /\ out = Nil
    /\ indexMu = Unlocked
    /\ latencyMu = Unlocked
    /\ avgLatencyMs = Zero

\* the steps of the checks after their checker call, and the steps of Screen
OtherSteps ==
    \/ getRiskProfile
    \/ getVelocityData
    \/ detectPatterns
    \/ \E t \in Checks : Lock(t)
    \/ \E t \in Checks : Assign(t)
    \/ \E t \in Checks : AppendFactors(t)
    \/ \E t \in Checks : Unlock(t)
    \/ Deadline
    \/ Wait
    \/ ScoreLock
    \/ Score
    \/ ScoreUnlock
    \/ recordLatency
    \/ Return
    \/ Crash

Next ==
    \/ runOFACCheck
    \/ runPEPCheck
    \/ OtherSteps

Spec == Init /\ [][Next]_vars

(***************************************************************************)
(* SpecCalc: calculateResult (and RiskCalculator.Calculate under it) applied *)
(* by Screen to a screening context drawn from a bounded set, the checks   *)
(* having all returned                                                     *)
(***************************************************************************)
SeqsUpTo(S, n) == UNION {[1..k -> S] : k \in 0..n}

FactorPool == {Factor("OFAC_MATCH", 50), Factor("STRUCTURING", 27), Factor("UNUSUAL_TIME", -15)}

CalcTransactions ==
    {TxHigh, TxClean,
     Tx("INBOUND", NameAl, <<>>, "RU", "US", 10000),
     Tx("OUTBOUND", <<>>, NameAl, "", "IR", 49999)}

CalcOFACResults == {Nil, NoOFACMatch, OFACHit(SDNAl, "EXACT", One),
                    OFACHit(SDNAl, "FUZZY", Frac(9, 10))}
CalcPEPResults  == {Nil, PEPHit(PEPAl, "FUZZY", Frac(9, 10))}
CalcProfiles    == {Nil, ProfileRisky, ProfileClean, ProfileUneven,
                    Profile(FALSE, FALSE, 0, -100, 0, 0)}
CalcVelocities  == {Nil, VelocitySpike, VelocityCalm, Velocity(2500, 500, 0, 1),
                    Velocity(0, 0, 0, 0)}

CalcContexts ==
    {[Transaction |-> t, OFACResult |-> o, PEPResult |-> p, RiskProfile |-> rp,
      VelocityData |-> v, PatternMatches |-> <<>>, RiskFactors |-> fs] :
        t \in CalcTransactions, o \in CalcOFACResults, p \in CalcPEPResults,
        rp \in CalcProfiles, v \in CalcVelocities,
        fs \in SeqsUpTo(FactorPool, MaxFactors)}

InitCalc ==
    /\ sctx \in CalcContexts
    /\ env = [tx |-> sctx.Transaction]
    /\ exactIndex = EmptyIndex
    /\ pepIndex = EmptyIndex
    /\ pc = [t \in Checks |-> "done"]
    /\ local = [t \in Checks |-> NoLocal(t)]
    /\ mu = Nobody
    /\ ctxDone = FALSE
    /\ mainPc = "wait"
    /\ result = Nil
    /\ ret = Nil
    /\ screeningCount = 0
    /\ score = 0
    /\ mapped = Nil
    /\ arg = Nil
    /\ out = Nil
    /\ indexMu = Unlocked
    /\ latencyMu = Unlocked
    /\ avgLatencyMs = Zero

NextCalc ==
    \/ Wait
    \/ ScoreLock
    \/ Score
    \/ ScoreUnlock
    \/ recordLatency
    \/ Return

SpecCalc == InitCalc /\ [][NextCalc]_vars

(***************************************************************************)
(* SpecMap: CalculateRiskLevel and CalculateDecision applied to a score    *)
(***************************************************************************)
InitMap ==
    /\ score \in 0..MaxScoreInput
    /\ mapped = Nil
    /\ env = [tx |-> TxClean]
    /\ sctx = NewContext(TxClean)
    /\ exactIndex = EmptyIndex
    /\ pepIndex = EmptyIndex
    /\ pc = [t \in Checks |-> "done"]
    /\ local = [t \in Checks |-> NoLocal(t)]
    /\ mu = Nobody
    /\ ctxDone = FALSE
    /\ mainPc = "idle"
    /\ result = Nil
    /\ ret = Nil
    /\ screeningCount = 0
    /\ arg = Nil
    /\ out = Nil
    /\ indexMu = Unlocked
    /\ latencyMu = Unlocked
    /\ avgLatencyMs = Zero

MapScore ==
    /\ mapped = Nil
    /\ mainPc = "idle"
    /\ mapped' = [RiskLevel |-> CalculateRiskLevel(score),
                  Decision |-> CalculateDecision(score)]
    /\ UNCHANGED <<indexMu, latencyMu, avgLatencyMs, arg, out, env, sctx, exactIndex, pepIndex, pc, local, mu, ctxDone, mainPc,
                   result, ret, screeningCount, score>>

NextMap == MapScore

SpecMap == InitMap /\ [][NextMap]_vars

(***************************************************************************)
(* SpecMono: Calculate applied to a context before and after a risk factor *)
(* with a positive weight is appended to it                                *)
(***************************************************************************)
PositiveFactors == {f \in FactorPool : f.Weight > 0}

InitMono ==
    /\ sctx \in CalcContexts
    /\ env = [tx |-> sctx.Transaction]
    /\ exactIndex = EmptyIndex
    /\ pepIndex = EmptyIndex
    /\ pc = [t \in Checks |-> "done"]
    /\ local = [t \in Checks |-> NoLocal(t)]
    /\ mu = Nobody
    /\ ctxDone = FALSE
    /\ mainPc = "idle"
    /\ result = Nil
    /\ ret = Nil
    /\ screeningCount = 0
    /\ score = 0
    /\ mapped = Nil
    /\ arg = Nil
    /\ out = Nil
    /\ indexMu = Unlocked
    /\ latencyMu = Unlocked
    /\ avgLatencyMs = Zero

\* score := Calculate(sctx)
Rescore ==
    /\ mainPc = "idle"
    /\ score' = Calculate(sctx)
    /\ mainPc' = "scored"
    /\ UNCHANGED <<indexMu, latencyMu, avgLatencyMs, env, sctx, exactIndex, pepIndex, pc, local, mu, ctxDone, result, ret,
                   screeningCount, mapped, arg, out>>

\* sctx.RiskFactors = append(sctx.RiskFactors, f), remembering the score before
AddFactor ==
    /\ mainPc = "scored"
    /\ Len(sctx.RiskFactors) <= MaxFactors
    /\ \E f \in PositiveFactors :
           /\ sctx' = [sctx EXCEPT !.RiskFactors = Append(@, f)]
           /\ arg' = f
    /\ out' = [before |-> score]
    /\ mainPc' = "idle"
    /\ UNCHANGED <<indexMu, latencyMu, avgLatencyMs, env, exactIndex, pepIndex, pc, local, mu, ctxDone, result, ret,
                   screeningCount, score, mapped>>

NextMono ==
    \/ Rescore
    \/ AddFactor

SpecMono == InitMono /\ [][NextMono]_vars

(***************************************************************************)
(* SpecNorm: normalizeName applied to a name, and again to what it returned *)
(***************************************************************************)
\* the pieces names are built from: the honorifics in either case, letters,
\* a digit, space, dot and another punctuation mark
NameTokens ==
    {<<"m", "r", ".">>, <<"M", "r", "s", ".">>, <<"m", "s", ".">>, <<"D", "r", ".">>,
     <<"p", "r", "o", "f", ".">>, <<" ">>, <<"A">>, <<"l">>, <<"7">>, <<".">>, <<"-">>}

RECURSIVE Concat(_)
Concat(ws) == IF ws = <<>> THEN <<>> ELSE Head(ws) \o Concat(Tail(ws))

Names == {Concat(ws) : ws \in SeqsUpTo(NameTokens, MaxTokens)}

InitNorm ==
    /\ arg \in Names
    /\ out = Nil
    /\ env = [tx |-> TxClean]
    /\ sctx = NewContext(TxClean)
    /\ exactIndex = EmptyIndex
    /\ pepIndex = EmptyIndex
    /\ pc = [t \in Checks |-> "done"]
    /\ local = [t \in Checks |-> NoLocal(t)]
    /\ mu = Nobody
    /\ ctxDone = FALSE
    /\ mainPc = "idle"
    /\ result = Nil
    /\ ret = Nil
    /\ screeningCount = 0
    /\ score = 0
    /\ mapped = Nil
    /\ indexMu = Unlocked
    /\ latencyMu = Unlocked
    /\ avgLatencyMs = Zero

\* once := normalizeName(arg)
Normalize ==
    /\ out = Nil
    /\ out' = [once |-> normalizeName(arg)]
    /\ UNCHANGED <<indexMu, latencyMu, avgLatencyMs, arg, env, sctx, exactIndex, pepIndex, pc, local, mu, ctxDone, mainPc,
                   result, ret, screeningCount, score, mapped>>

\* twice := normalizeName(once)
NormalizeAgain ==
    /\ out # Nil
    /\ DOMAIN out = {"once"}
    /\ out' = [once |-> out.once, twice |-> normalizeName(out.once)]
    /\ UNCHANGED <<indexMu, latencyMu, avgLatencyMs, arg, env, sctx, exactIndex, pepIndex, pc, local, mu, ctxDone, mainPc,
                   result, ret, screeningCount, score, mapped>>

NextNorm ==
    \/ Normalize
    \/ NormalizeAgain

SpecNorm == InitNorm /\ [][NextNorm]_vars

(***************************************************************************)
(* SpecJW: jaroWinkler applied to two strings                              *)
(***************************************************************************)
JWStrings == SeqsUpTo({"a", "l", "x"}, MaxJWLen)

InitJW ==
    /\ arg \in [s1 : JWStrings, s2 : JWStrings]
    /\ out = Nil
    /\ env = [tx |-> TxClean]
    /\ sctx = NewContext(TxClean)
    /\ exactIndex = EmptyIndex
    /\ pepIndex = EmptyIndex
    /\ pc = [t \in Checks |-> "done"]
    /\ local = [t \in Checks |-> NoLocal(t)]
    /\ mu = Nobody
    /\ ctxDone = FALSE
    /\ mainPc = "idle"
    /\ result = Nil
    /\ ret = Nil
    /\ screeningCount = 0
    /\ score = 0
    /\ mapped = Nil
    /\ indexMu = Unlocked
    /\ latencyMu = Unlocked
    /\ avgLatencyMs = Zero

\* out := jaroWinkler(s1, s2)
Compare ==
    /\ out = Nil
    /\ out' = jaroWinkler(arg.s1, arg.s2)
    /\ UNCHANGED <<indexMu, latencyMu, avgLatencyMs, arg, env, sctx, exactIndex, pepIndex, pc, local, mu, ctxDone, mainPc,
                   result, ret, screeningCount, score, mapped>>

NextJW == Compare

SpecJW == InitJW /\ [][NextJW]_vars

(***************************************************************************)
(* SpecCheck: one checker (OFAC or PEP), its LoadIndex and one call of its *)
(* Check.  env holds the list GetAllEntries returns (or its failure) and   *)
(* the answers of the exact and the fuzzy lookup of the cache.             *)
(***************************************************************************)
NameMo == <<"M", "o">>
NameAlMo == <<"A", "l", "-", "M", "o">>
NameDrLo == <<"D", "r", ".", " ", "L", "o">>

\* list entries as the cache holds them: normalized_name is derived from name
SDN(id, name, aliases) ==
    [EntityID |-> id, Name |-> name, NormalizedName |-> normalizeName(name),
     Type |-> "Individual", Program |-> "SDGT", Aliases |-> aliases]

\* the known associates of the PEP entries, by entry id
AssociatesOf(id) ==
    CASE id = "1" -> <<NameDrLo>>
      [] id = "2" -> <<NameAl, NameDrLo>>
      [] OTHER -> <<>>

PEP(id, name, aliases) ==
    [ID |-> id, Name |-> name, NormalizedName |-> normalizeName(name),
     Position |-> "minister", Country |-> "IR", Category |-> "foreign",
     IsActive |-> TRUE, Aliases |-> aliases, Associates |-> AssociatesOf(id)]

Listed(checker, id, name, aliases) ==
    IF checker = "ofac" THEN SDN(id, name, aliases) ELSE PEP(id, name, aliases)

\* Al; Mo, also known as Al-Mo and as Al; Dr. Lo
EntryAl(checker) == Listed(checker, "1", NameAl, <<>>)
EntryMo(checker) == Listed(checker, "2", NameMo, <<NameAlMo, NameAl>>)
EntryLo(checker) == Listed(checker, "3", NameDrLo, <<>>)

CheckLists(checker) ==
    {<<>>, <<EntryAl(checker)>>, <<EntryLo(checker), EntryMo(checker)>>,
     <<EntryAl(checker), EntryMo(checker)>>, <<EntryMo(checker), EntryAl(checker)>>}

CheckNames ==
    {<<>>, NameAl, <<"a", "L", ".">>, <<"M", "r", ".", " ", "A", "l">>, NameMo, NameAlMo,
     <<"L", "o">>, NameDrLo, <<"M", "a">>, <<"A", "l", "l">>, <<".", ".", ".">>}

CheckEnvs ==
    {[checker |-> c, all |-> a, exact |-> e, fuzzy |-> f] :
        c \in {"ofac"}, a \in {Failed(<<>>)} \cup {Answer(l) : l \in CheckLists("ofac")},
        e \in {Failed(Nil), Answer(Nil), Answer(EntryAl("ofac"))},
        f \in {Failed(<<>>), Answer(<<>>), Answer(<<EntryAl("ofac")>>),
               Answer(<<EntryMo("ofac"), EntryAl("ofac")>>)}}
    \cup
    {[checker |-> c, all |-> a, exact |-> e, fuzzy |-> f] :
        c \in {"pep"}, a \in {Failed(<<>>)} \cup {Answer(l) : l \in CheckLists("pep")},
        e \in {Failed(Nil), Answer(Nil), Answer(EntryAl("pep"))},
        f \in {Failed(<<>>), Answer(<<>>), Answer(<<EntryAl("pep")>>),
               Answer(<<EntryMo("pep"), EntryAl("pep")>>)}}

InitCheck ==
    /\ env \in CheckEnvs
    /\ exactIndex = EmptyIndex
    /\ pepIndex = EmptyIndex
    /\ mainPc = "idle"
    /\ arg = Nil
    /\ out = Nil
    /\ sctx = NewContext(TxClean)
    /\ pc = [t \in Checks |-> "done"]
    /\ local = [t \in Checks |-> NoLocal(t)]
    /\ mu = Nobody
    /\ ctxDone = FALSE
    /\ result = Nil
    /\ ret = Nil
    /\ screeningCount = 0
    /\ score = 0
    /\ mapped = Nil
    /\ indexMu = Unlocked
    /\ latencyMu = Unlocked
    /\ avgLatencyMs = Zero

\* OFACChecker.LoadIndex / PEPChecker.LoadIndex: on an error of GetAllEntries
\* the index is left as it is
LoadIndexCall ==
    /\ mainPc = "idle"
    /\ out = Nil
    /\ IF env.all.err # Nil
       THEN /\ mainPc' = "load_failed"
            /\ UNCHANGED <<indexMu, latencyMu, avgLatencyMs, exactIndex, pepIndex>>
       ELSE /\ mainPc' = "loaded"
            /\ IF env.checker = "ofac"
               THEN exactIndex' = LoadIndex(env.all.res) /\ UNCHANGED pepIndex
               ELSE pepIndex' = LoadIndex(env.all.res) /\ UNCHANGED exactIndex
    /\ UNCHANGED <<indexMu, latencyMu, avgLatencyMs, env, sctx, pc, local, mu, ctxDone, result, ret, screeningCount,
                   score, mapped, arg, out>>

\* OFACChecker.Check(name)
OFACCheckCall ==
    /\ env.checker = "ofac"
    /\ out = Nil
    /\ \E name \in CheckNames :
           /\ arg' = name
           /\ out' = OFACCheck(name, exactIndex, env.exact, env.fuzzy)
    /\ UNCHANGED <<indexMu, latencyMu, avgLatencyMs, env, sctx, exactIndex, pepIndex, pc, local, mu, ctxDone, mainPc,
                   result, ret, screeningCount, score, mapped>>

\* PEPChecker.Check(name)
PEPCheckCall ==
    /\ env.checker = "pep"
    /\ out = Nil
    /\ \E name \in CheckNames :
           /\ arg' = name
           /\ out' = PEPCheck(name, pepIndex, env.exact, env.fuzzy)
    /\ UNCHANGED <<indexMu, latencyMu, avgLatencyMs, env, sctx, exactIndex, pepIndex, pc, local, mu, ctxDone, mainPc,
                   result, ret, screeningCount, score, mapped>>

\* PEPChecker.CheckWithAssociates: Check, then on a match a second GetByName
\* whose error is dropped; a nil slice of associates is the empty sequence
CheckWithAssociates(name, index, cacheExact, cacheFuzzy) ==
    LET r == PEPCheck(name, index, cacheExact, cacheFuzzy)
        entry == cacheExact.res
    IN  IF r.err # Nil
        THEN [res |-> Nil, err |-> r.err, exact |-> r.exact, fuzzy |-> r.fuzzy,
              associates |-> <<>>]
        ELSE IF r.res.Matched /\ entry # Nil
        THEN [res |-> r.res, err |-> Nil, exact |-> cacheExact, fuzzy |-> r.fuzzy,
              associates |-> entry.Associates]
        ELSE [res |-> r.res, err |-> Nil,
              exact |-> IF r.res.Matched THEN cacheExact ELSE r.exact, fuzzy |-> r.fuzzy,
              associates |-> <<>>]

\* PEPChecker.CheckWithAssociates(name)
CheckWithAssociatesCall ==
    /\ env.checker = "pep"
    /\ out = Nil
    /\ \E name \in CheckNames :
           /\ arg' = name
           /\ out' = CheckWithAssociates(name, pepIndex, env.exact, env.fuzzy)
    /\ UNCHANGED <<indexMu, latencyMu, avgLatencyMs, env, sctx, exactIndex, pepIndex, pc, local,
                   mu, ctxDone, mainPc, result, ret, screeningCount, score, mapped>>

NextCheck ==
    \/ LoadIndexCall
    \/ OFACCheckCall
    \/ PEPCheckCall
    \/ CheckWithAssociatesCall

SpecCheck == InitCheck /\ [][NextCheck]_vars

(***************************************************************************)
(* LoadIndex running beside exactMatch: the index and its RWMutex          *)
(***************************************************************************)
ReloadTasks == {"load", "check1", "check2"}
Checkers == {"check1", "check2"}

\* sync.RWMutex: Lock waits for the writer and the readers to leave,
\* RLock for the writer and for a Lock call that is already waiting
CanLock_Ignored(m) == TRUE

CanLock(m) == m.writer = Nobody /\ m.readers = {}

CanRLock_Ignored(m) == TRUE

CanRLock(m) == m.writer = Nobody /\ m.waiting = {}

\* the stores LoadIndex makes into the map, in order
RECURSIVE AliasStores(_, _)
AliasStores(aliases, entry) ==
    IF aliases = <<>> THEN <<>>
    ELSE <<[key |-> normalizeName(Head(aliases)), entry |-> entry]>>
         \o AliasStores(Tail(aliases), entry)

RECURSIVE Stores(_)
Stores(entries) ==
    IF entries = <<>> THEN <<>>
    ELSE LET e == Head(entries)
         IN  <<[key |-> e.NormalizedName, entry |-> e]>> \o AliasStores(e.Aliases, e)
             \o Stores(Tail(entries))

ReloadNames == {<<"a", "l">>, <<"m", "o">>, <<"l", "o">>, <<"a", "l", "m", "o">>}

NoReloadLocal == [name |-> Nil, seen |-> Nil, res |-> Nil, todo |-> <<>>]

\* the index holds an earlier load; a reload and two Check calls start
InitReload ==
    /\ env \in {[old |-> l, all |-> a] :
                   l \in CheckLists("ofac"),
                   a \in {Failed(<<>>)} \cup {Answer(n) : n \in CheckLists("ofac")}}
    /\ exactIndex = LoadIndex(env.old)
    /\ indexMu = Unlocked
    /\ pc = [t \in ReloadTasks |-> "start"]
    /\ local = [t \in ReloadTasks |-> NoReloadLocal]
    /\ pepIndex = EmptyIndex
    /\ mainPc = "idle"
    /\ arg = Nil
    /\ out = Nil
    /\ sctx = NewContext(TxClean)
    /\ mu = Nobody
    /\ ctxDone = FALSE
    /\ result = Nil
    /\ ret = Nil
    /\ screeningCount = 0
    /\ score = 0
    /\ mapped = Nil
    /\ latencyMu = Unlocked
    /\ avgLatencyMs = Zero

\* LoadIndex: GetAllEntries, before the lock is taken
LoadIndex_GetAllEntries ==
    /\ pc["load"] = "start"
    /\ IF env.all.err # Nil
       THEN pc' = [pc EXCEPT !["load"] = "done"] /\ UNCHANGED local
       ELSE /\ pc' = [pc EXCEPT !["load"] = "lock"]
            /\ local' = [local EXCEPT !["load"].todo = Stores(env.all.res)]
    /\ UNCHANGED <<indexMu, latencyMu, avgLatencyMs, env, sctx, exactIndex, pepIndex, mu, ctxDone,
                   mainPc, result, ret, screeningCount, score, mapped, arg, out>>

\* c.indexMu.Lock()
LoadIndex_Lock ==
    /\ pc["load"] = "lock"
    /\ CanLock(indexMu)
    /\ indexMu' = [indexMu EXCEPT !.writer = "load"]
    /\ pc' = [pc EXCEPT !["load"] = "make"]
    /\ UNCHANGED <<latencyMu, avgLatencyMs, env, sctx, exactIndex, pepIndex, local, mu, ctxDone,
                   mainPc, result, ret, screeningCount, score, mapped, arg, out>>

\* c.exactIndex = make(map[string]*domain.SDNEntry, len(entries))
LoadIndex_Make ==
    /\ pc["load"] = "make"
    /\ exactIndex' = EmptyIndex
    /\ pc' = [pc EXCEPT !["load"] = "fill"]
    /\ UNCHANGED <<indexMu, latencyMu, avgLatencyMs, env, sctx, pepIndex, local, mu, ctxDone,
                   mainPc, result, ret, screeningCount, score, mapped, arg, out>>

\* one store of the loop over the entries and their aliases
LoadIndex_Store ==
    /\ pc["load"] = "fill"
    /\ local["load"].todo # <<>>
    /\ LET s == Head(local["load"].todo)
       IN  exactIndex' = Put(exactIndex, s.key, s.entry)
    /\ local' = [local EXCEPT !["load"].todo = Tail(@)]
    /\ UNCHANGED <<indexMu, latencyMu, avgLatencyMs, env, sctx, pepIndex, pc, mu, ctxDone,
                   mainPc, result, ret, screeningCount, score, mapped, arg, out>>

\* the deferred c.indexMu.Unlock()
LoadIndex_Unlock ==
    /\ pc["load"] = "fill"
    /\ local["load"].todo = <<>>
    /\ indexMu' = [indexMu EXCEPT !.writer = Nobody]
    /\ pc' = [pc EXCEPT !["load"] = "done"]
    /\ UNCHANGED <<latencyMu, avgLatencyMs, env, sctx, exactIndex, pepIndex, local, mu, ctxDone,
                   mainPc, result, ret, screeningCount, score, mapped, arg, out>>

\* exactMatch(normalizedName): c.indexMu.RLock()
exactMatch_RLock(t) ==
    /\ pc[t] = "start"
    /\ CanRLock(indexMu)
    /\ indexMu' = [indexMu EXCEPT !.readers = @ \cup {t}]
    /\ \E n \in ReloadNames : local' = [local EXCEPT ![t].name = n]
    /\ pc' = [pc EXCEPT ![t] = "lookup"]
    /\ UNCHANGED <<latencyMu, avgLatencyMs, env, sctx, exactIndex, pepIndex, mu, ctxDone,
                   mainPc, result, ret, screeningCount, score, mapped, arg, out>>

\* entry, found := c.exactIndex[normalizedName]
exactMatch_Lookup(t) ==
    /\ pc[t] = "lookup"
    /\ local' = [local EXCEPT ![t].seen = exactIndex,
                              ![t].res = exactMatch(exactIndex, local[t].name)]
    /\ pc' = [pc EXCEPT ![t] = "unlock"]
    /\ UNCHANGED <<indexMu, latencyMu, avgLatencyMs, env, sctx, exactIndex, pepIndex, mu, ctxDone,
                   mainPc, result, ret, screeningCount, score, mapped, arg, out>>

\* the deferred c.indexMu.RUnlock()
exactMatch_RUnlock(t) ==
    /\ pc[t] = "unlock"
    /\ indexMu' = [indexMu EXCEPT !.readers = @ \ {t}]
    /\ pc' = [pc EXCEPT ![t] = "done"]
    /\ UNCHANGED <<latencyMu, avgLatencyMs, env, sctx, exactIndex, pepIndex, local, mu, ctxDone,
                   mainPc, result, ret, screeningCount, score, mapped, arg, out>>

NextReload ==
    \/ LoadIndex_GetAllEntries
    \/ LoadIndex_Lock
    \/ LoadIndex_Make
    \/ LoadIndex_Store
    \/ LoadIndex_Unlock
    \/ \E t \in Checkers : exactMatch_RLock(t)
    \/ \E t \in Checkers : exactMatch_Lookup(t)
    \/ \E t \in Checkers : exactMatch_RUnlock(t)

SpecReload == InitReload /\ [][NextReload]_vars

(***************************************************************************)
(* determineRiskCategory applied to PEP entries                            *)
(***************************************************************************)
Positions ==
    {"head of state", "head of government", "minister", "military general", "senior judge",
     "Minister", "HEAD OF STATE", "Senior Judge", "mayor", ""}

PEPEntries ==
    {[ID |-> "1", Name |-> NameAl, NormalizedName |-> <<"a", "l">>, Position |-> p,
      Country |-> "IR", Category |-> c, IsActive |-> a, Aliases |-> <<>>,
      Associates |-> <<>>] :
        p \in Positions, c \in {"domestic", "foreign", "international_org"}, a \in BOOLEAN}

InitCat ==
    /\ arg \in PEPEntries
    /\ out = Nil
    /\ env = Nil
    /\ exactIndex = EmptyIndex
    /\ pepIndex = EmptyIndex
    /\ mainPc = "idle"
    /\ sctx = NewContext(TxClean)
    /\ pc = [t \in Checks |-> "done"]
    /\ local = [t \in Checks |-> NoLocal(t)]
    /\ mu = Nobody
    /\ ctxDone = FALSE
    /\ result = Nil
    /\ ret = Nil
    /\ screeningCount = 0
    /\ score = 0
    /\ mapped = Nil
    /\ indexMu = Unlocked
    /\ latencyMu = Unlocked
    /\ avgLatencyMs = Zero

Categorize ==
    /\ out = Nil
    /\ out' = [RiskCategory |-> determineRiskCategory(arg)]
    /\ UNCHANGED <<indexMu, latencyMu, avgLatencyMs, env, sctx, exactIndex, pepIndex, pc, local,
                   mu, ctxDone, mainPc, result, ret, screeningCount, score, mapped, arg>>

NextCat == Categorize

SpecCat == InitCat /\ [][NextCat]_vars

(***************************************************************************)
(* The locks of a Screen call: ScreeningContext.mu, the checkers' indexMu, *)
(* Engine.latencyMu                                                        *)
(***************************************************************************)
IndexLocks == {"ofacIndex", "pepIndex"}
LockTasks == Checks \cup {"screen", "loadOFAC", "loadPEP", "metrics"}

Edge(from, op, lock, to) == [from |-> from, op |-> op, lock |-> lock, to |-> to]

\* runOFACCheck / runPEPCheck holding the index lock until the context is updated
CheckFlow_IndexHeldAcrossUpdate(index) ==
    {Edge("start", "return", "", "done"),
     Edge("start", "RLock", index, "exactMatch"),
     Edge("exactMatch", "Lock", "ctx", "update"),
     Edge("update", "Unlock", "ctx", "matched"),
     Edge("matched", "RUnlock", index, "done")}

\* runOFACCheck / runPEPCheck: return on an empty name; Check reads the index
\* in exactMatch; return on an error; else update the context under sctx.mu
CheckFlow(index) ==
    {Edge("start", "return", "", "done"),
     Edge("start", "RLock", index, "exactMatch"),
     Edge("exactMatch", "RUnlock", index, "checked"),
     Edge("checked", "return", "", "done"),
     Edge("checked", "Lock", "ctx", "update"),
     Edge("update", "Unlock", "ctx", "done")}

\* getVelocityData / detectPatterns: return on an error, else update the context
FetchFlow ==
    {Edge("start", "return", "", "done"),
     Edge("start", "Lock", "ctx", "update"),
     Edge("update", "Unlock", "ctx", "done")}

\* getRiskProfile: as above, and the dereference of a nil profile under sctx.mu
ProfileFlow == FetchFlow \cup {Edge("update", "panic", "", "panic")}

\* Screen after the goroutines are started: g.Wait, calculateResult, recordLatency
ScreenFlow ==
    {Edge("start", "Wait", "", "calculateResult"),
     Edge("calculateResult", "Lock", "ctx", "calculate"),
     Edge("calculate", "Unlock", "ctx", "recordLatency"),
     Edge("recordLatency", "Lock", "latency", "record"),
     Edge("record", "Unlock", "latency", "done")}

\* LoadIndex: return on an error of GetAllEntries, else rebuild under indexMu
LoadFlow(index) ==
    {Edge("start", "return", "", "done"),
     Edge("start", "Lock", index, "fill"),
     Edge("fill", "Unlock", index, "done")}

\* GetAverageLatency / GetScreeningCount
MetricsFlow ==
    {Edge("start", "RLock", "latency", "read"),
     Edge("read", "RUnlock", "latency", "done")}

Flow(t) ==
    CASE t = "ofac" -> CheckFlow("ofacIndex")
      [] t = "pep" -> CheckFlow("pepIndex")
      [] t = "profile" -> ProfileFlow
      [] t \in {"velocity", "patterns"} -> FetchFlow
      [] t = "screen" -> ScreenFlow
      [] t = "loadOFAC" -> LoadFlow("ofacIndex")
      [] t = "loadPEP" -> LoadFlow("pepIndex")
      [] t = "metrics" -> MetricsFlow

\* the steps task t can take next
Edges(t, op) == {e \in Flow(t) : e.from = pc[t] /\ e.op = op}

RW(lock) == IF lock = "latency" THEN latencyMu ELSE indexMu[lock]

SetRW(lock, m) ==
    IF lock = "latency"
    THEN latencyMu' = m /\ UNCHANGED indexMu
    ELSE indexMu' = [indexMu EXCEPT ![lock] = m] /\ UNCHANGED latencyMu

Running == mainPc = "idle"

InitLocks ==
    /\ pc = [t \in LockTasks |-> "start"]
    /\ mu = Nobody
    /\ indexMu = [l \in IndexLocks |-> Unlocked]
    /\ latencyMu = Unlocked
    /\ mainPc = "idle"
    /\ env = Nil
    /\ exactIndex = EmptyIndex
    /\ pepIndex = EmptyIndex
    /\ arg = Nil
    /\ out = Nil
    /\ sctx = NewContext(TxClean)
    /\ local = [t \in Checks |-> NoLocal(t)]
    /\ ctxDone = FALSE
    /\ result = Nil
    /\ ret = Nil
    /\ screeningCount = 0
    /\ score = 0
    /\ mapped = Nil
    /\ avgLatencyMs = Zero

\* a step that takes no lock: an early return
Proceed(t) ==
    /\ Running
    /\ \E e \in Edges(t, "return") : pc' = [pc EXCEPT ![t] = e.to]
    /\ UNCHANGED <<indexMu, latencyMu, avgLatencyMs, env, sctx, exactIndex, pepIndex, local, mu,
                   ctxDone, mainPc, result, ret, screeningCount, score, mapped, arg, out>>

\* g.Wait(): the five goroutines have returned
WaitAll ==
    /\ Running
    /\ \A c \in Checks : pc[c] = "done"
    /\ \E e \in Edges("screen", "Wait") : pc' = [pc EXCEPT !["screen"] = e.to]
    /\ UNCHANGED <<indexMu, latencyMu, avgLatencyMs, env, sctx, exactIndex, pepIndex, local, mu,
                   ctxDone, mainPc, result, ret, screeningCount, score, mapped, arg, out>>

\* sctx.mu.Lock()
MutexLock(t) ==
    /\ Running
    /\ mu = Nobody
    /\ \E e \in Edges(t, "Lock") :
           /\ e.lock = "ctx"
           /\ pc' = [pc EXCEPT ![t] = e.to]
    /\ mu' = t
    /\ UNCHANGED <<indexMu, latencyMu, avgLatencyMs, env, sctx, exactIndex, pepIndex, local,
                   ctxDone, mainPc, result, ret, screeningCount, score, mapped, arg, out>>

\* sctx.mu.Unlock()
MutexUnlock(t) ==
    /\ Running
    /\ \E e \in Edges(t, "Unlock") :
           /\ e.lock = "ctx"
           /\ pc' = [pc EXCEPT ![t] = e.to]
    /\ mu' = Nobody
    /\ UNCHANGED <<indexMu, latencyMu, avgLatencyMs, env, sctx, exactIndex, pepIndex, local,
                   ctxDone, mainPc, result, ret, screeningCount, score, mapped, arg, out>>

\* RWMutex.Lock, first half: the call is announced and new readers are held off
RWLockWait(t) ==
    /\ Running
    /\ \E e \in Edges(t, "Lock") :
           /\ e.lock # "ctx"
           /\ RW(e.lock).writer = Nobody
           /\ RW(e.lock).waiting = {}
           /\ SetRW(e.lock, [RW(e.lock) EXCEPT !.waiting = {t}])
    /\ UNCHANGED <<avgLatencyMs, env, sctx, exactIndex, pepIndex, pc, local, mu,
                   ctxDone, mainPc, result, ret, screeningCount, score, mapped, arg, out>>

\* RWMutex.Lock, second half: the readers have left
RWLock(t) ==
    /\ Running
    /\ \E e \in Edges(t, "Lock") :
           /\ e.lock # "ctx"
           /\ t \in RW(e.lock).waiting
           /\ RW(e.lock).readers = {}
           /\ SetRW(e.lock, [RW(e.lock) EXCEPT !.waiting = {}, !.writer = t])
           /\ pc' = [pc EXCEPT ![t] = e.to]
    /\ UNCHANGED <<avgLatencyMs, env, sctx, exactIndex, pepIndex, local, mu,
                   ctxDone, mainPc, result, ret, screeningCount, score, mapped, arg, out>>

\* RWMutex.Unlock
RWUnlock(t) ==
    /\ Running
    /\ \E e \in Edges(t, "Unlock") :
           /\ e.lock # "ctx"
           /\ SetRW(e.lock, [RW(e.lock) EXCEPT !.writer = Nobody])
           /\ pc' = [pc EXCEPT ![t] = e.to]
    /\ UNCHANGED <<avgLatencyMs, env, sctx, exactIndex, pepIndex, local, mu,
                   ctxDone, mainPc, result, ret, screeningCount, score, mapped, arg, out>>

\* RWMutex.RLock
RWRLock(t) ==
    /\ Running
    /\ \E e \in Edges(t, "RLock") :
           /\ CanRLock(RW(e.lock))
           /\ SetRW(e.lock, [RW(e.lock) EXCEPT !.readers = @ \cup {t}])
           /\ pc' = [pc EXCEPT ![t] = e.to]
    /\ UNCHANGED <<avgLatencyMs, env, sctx, exactIndex, pepIndex, local, mu,
                   ctxDone, mainPc, result, ret, screeningCount, score, mapped, arg, out>>

\* RWMutex.RUnlock
RWRUnlock(t) ==
    /\ Running
    /\ \E e \in Edges(t, "RUnlock") :
           /\ SetRW(e.lock, [RW(e.lock) EXCEPT !.readers = @ \ {t}])
           /\ pc' = [pc EXCEPT ![t] = e.to]
    /\ UNCHANGED <<avgLatencyMs, env, sctx, exactIndex, pepIndex, local, mu,
                   ctxDone, mainPc, result, ret, screeningCount, score, mapped, arg, out>>

\* a panic in a goroutine ends the process
Panic(t) ==
    /\ Running
    /\ \E e \in Edges(t, "panic") : pc' = [pc EXCEPT ![t] = e.to]
    /\ mainPc' = "panic"
    /\ UNCHANGED <<indexMu, latencyMu, avgLatencyMs, env, sctx, exactIndex, pepIndex, local, mu,
                   ctxDone, result, ret, screeningCount, score, mapped, arg, out>>

NextLocks ==
    \/ WaitAll
    \/ \E t \in LockTasks : Proceed(t)
    \/ \E t \in LockTasks : MutexLock(t)
    \/ \E t \in LockTasks : MutexUnlock(t)
    \/ \E t \in LockTasks : RWLockWait(t)
    \/ \E t \in LockTasks : RWLock(t)
    \/ \E t \in LockTasks : RWUnlock(t)
    \/ \E t \in LockTasks : RWRLock(t)
    \/ \E t \in LockTasks : RWRUnlock(t)
    \/ \E t \in LockTasks : Panic(t)

SpecLocks == InitLocks /\ [][NextLocks]_vars

(***************************************************************************)
(* recordLatency called by concurrent Screen calls, beside a metrics reader *)
(***************************************************************************)
Screens == {"screen1", "screen2", "screen3"}
TelemetryTasks == Screens \cup {"metrics"}

NoTelemetryLocal == [read |-> FALSE, count |-> 0, completed |-> 0]

\* a new Engine; each Screen call has measured its duration
InitTelemetry ==
    /\ arg \in [Screens -> Durations]
    /\ out = <<>>
    /\ screeningCount = 0
    /\ avgLatencyMs = Zero
    /\ latencyMu = Unlocked
    /\ pc = [t \in TelemetryTasks |-> "start"]
    /\ local = [t \in TelemetryTasks |-> NoTelemetryLocal]
    /\ indexMu = Unlocked
    /\ env = Nil
    /\ exactIndex = EmptyIndex
    /\ pepIndex = EmptyIndex
    /\ mainPc = "idle"
    /\ sctx = NewContext(TxClean)
    /\ mu = Nobody
    /\ ctxDone = FALSE
    /\ result = Nil
    /\ ret = Nil
    /\ score = 0
    /\ mapped = Nil

\* e.latencyMu.Lock()
recordLatency_Lock(t) ==
    /\ pc[t] = "start"
    /\ CanLock(latencyMu)
    /\ latencyMu' = [latencyMu EXCEPT !.writer = t]
    /\ pc' = [pc EXCEPT ![t] = "load"]
    /\ UNCHANGED <<indexMu, avgLatencyMs, env, sctx, exactIndex, pepIndex, local, mu, ctxDone,
                   mainPc, result, ret, screeningCount, score, mapped, arg, out>>

\* e.screeningCount++ : the read
recordLatency_Load(t) ==
    /\ pc[t] = "load"
    /\ local' = [local EXCEPT ![t].count = screeningCount]
    /\ pc' = [pc EXCEPT ![t] = "store"]
    /\ UNCHANGED <<indexMu, latencyMu, avgLatencyMs, env, sctx, exactIndex, pepIndex, mu, ctxDone,
                   mainPc, result, ret, screeningCount, score, mapped, arg, out>>

\* e.screeningCount++ : the write
recordLatency_Store(t) ==
    /\ pc[t] = "store"
    /\ screeningCount' = local[t].count + 1
    /\ pc' = [pc EXCEPT ![t] = "average"]
    /\ UNCHANGED <<indexMu, latencyMu, avgLatencyMs, env, sctx, exactIndex, pepIndex, local, mu,
                   ctxDone, mainPc, result, ret, score, mapped, arg, out>>

\* e.avgLatencyMs = e.avgLatencyMs*0.9 + float64(durationMs)*0.1 ;
\* out keeps the durations in the order they were folded in
recordLatency_Average(t) ==
    /\ pc[t] = "average"
    /\ avgLatencyMs' = MovingAverage(avgLatencyMs, arg[t])
    /\ out' = Append(out, arg[t])
    /\ pc' = [pc EXCEPT ![t] = "unlock"]
    /\ UNCHANGED <<indexMu, latencyMu, env, sctx, exactIndex, pepIndex, local, mu, ctxDone,
                   mainPc, result, ret, screeningCount, score, mapped, arg>>

\* the deferred e.latencyMu.Unlock()
recordLatency_Unlock(t) ==
    /\ pc[t] = "unlock"
    /\ latencyMu' = [latencyMu EXCEPT !.writer = Nobody]
    /\ pc' = [pc EXCEPT ![t] = "done"]
    /\ UNCHANGED <<indexMu, avgLatencyMs, env, sctx, exactIndex, pepIndex, local, mu, ctxDone,
                   mainPc, result, ret, screeningCount, score, mapped, arg, out>>

\* GetScreeningCount: e.latencyMu.RLock()
GetScreeningCount_RLock ==
    /\ pc["metrics"] = "start"
    /\ CanRLock(latencyMu)
    /\ latencyMu' = [latencyMu EXCEPT !.readers = @ \cup {"metrics"}]
    /\ pc' = [pc EXCEPT !["metrics"] = "read"]
    /\ UNCHANGED <<indexMu, avgLatencyMs, env, sctx, exactIndex, pepIndex, local, mu, ctxDone,
                   mainPc, result, ret, screeningCount, score, mapped, arg, out>>

\* return e.screeningCount ; completed keeps how many Screen calls had
\* left recordLatency by then
GetScreeningCount_Read ==
    /\ pc["metrics"] = "read"
    /\ local' = [local EXCEPT !["metrics"] =
                    [read |-> TRUE, count |-> screeningCount,
                     completed |-> Cardinality({s \in Screens : pc[s] = "done"})]]
    /\ pc' = [pc EXCEPT !["metrics"] = "unlock"]
    /\ UNCHANGED <<indexMu, latencyMu, avgLatencyMs, env, sctx, exactIndex, pepIndex, mu, ctxDone,
                   mainPc, result, ret, screeningCount, score, mapped, arg, out>>

\* the deferred e.latencyMu.RUnlock() ; the getter can be called again
GetScreeningCount_RUnlock ==
    /\ pc["metrics"] = "unlock"
    /\ latencyMu' = [latencyMu EXCEPT !.readers = @ \ {"metrics"}]
    /\ pc' = [pc EXCEPT !["metrics"] = "start"]
    /\ UNCHANGED <<indexMu, avgLatencyMs, env, sctx, exactIndex, pepIndex, local, mu, ctxDone,
                   mainPc, result, ret, screeningCount, score, mapped, arg, out>>

NextTelemetry ==
    \/ \E t \in Screens : recordLatency_Lock(t)
    \/ \E t \in Screens : recordLatency_Load(t)
    \/ \E t \in Screens : recordLatency_Store(t)
    \/ \E t \in Screens : recordLatency_Average(t)
    \/ \E t \in Screens : recordLatency_Unlock(t)
    \/ GetScreeningCount_RLock
    \/ GetScreeningCount_Read
    \/ GetScreeningCount_RUnlock

SpecTelemetry == InitTelemetry /\ [][NextTelemetry]_vars

(***************************************************************************)
(* normalizeName applied to a name and to the name padded with a space     *)
(***************************************************************************)
\* normalizeName(arg), normalizeName(" " + arg), normalizeName(arg + " ")
NormalizePadded ==
    /\ out = Nil
    /\ out' = [plain |-> normalizeName(arg),
               leading |-> normalizeName(<<" ">> \o arg),
               trailing |-> normalizeName(arg \o <<" ">>)]
    /\ UNCHANGED <<indexMu, latencyMu, avgLatencyMs, arg, env, sctx, exactIndex, pepIndex, pc,
                   local, mu, ctxDone, mainPc, result, ret, screeningCount, score, mapped>>

NextPad == NormalizePadded

SpecPad == InitNorm /\ [][NextPad]_vars

(***************************************************************************)
(* Properties                                                              *)
(***************************************************************************)
Returned == mainPc = "returned"

\* C1: whenever the context holds an OFAC result with Matched and MatchType
\* EXACT, the result Screen returns has Decision BLOCKED, RiskScore 100 and
\* RiskLevel CRITICAL, whatever the factors, transaction, velocity and profile
C1_ExactOFACBlocks ==
    (Returned /\ ExactOFAC(sctx)) =>
        /\ ret.result.Decision = "BLOCKED"
        /\ ret.result.RiskScore = 100
        /\ ret.result.RiskLevel = "CRITICAL"

\* an EXACT match whose accumulated score alone would have been approved
C1_Witness ==
    /\ Returned
    /\ ExactOFAC(sctx)
    /\ Calculate(sctx) < 50
    /\ ret.result.Decision = "BLOCKED"

\* C3: the level is CRITICAL from 80, HIGH from 60, MEDIUM from 30, else LOW;
\* the decision is BLOCKED from 80, SUSPICIOUS from 50, else APPROVED; with
\* the listed pairs at 0, 29, 30, 49, 50, 59, 60, 79, 80 and 100
C3_Pairs ==
    {<<0, "LOW", "APPROVED">>, <<29, "LOW", "APPROVED">>, <<30, "MEDIUM", "APPROVED">>,
     <<49, "MEDIUM", "APPROVED">>, <<50, "MEDIUM", "SUSPICIOUS">>,
     <<59, "MEDIUM", "SUSPICIOUS">>, <<60, "HIGH", "SUSPICIOUS">>,
     <<79, "HIGH", "SUSPICIOUS">>, <<80, "CRITICAL", "BLOCKED">>,
     <<100, "CRITICAL", "BLOCKED">>}

C3_LevelAndDecisionMapping ==
    mapped # Nil =>
        /\ (mapped.RiskLevel = "CRITICAL") = (score >= 80)
        /\ (mapped.RiskLevel = "HIGH") = (60 <= score /\ score < 80)
        /\ (mapped.RiskLevel = "MEDIUM") = (30 <= score /\ score < 60)
        /\ (mapped.RiskLevel = "LOW") = (score < 30)
        /\ (mapped.Decision = "BLOCKED") = (score >= 80)
        /\ (mapped.Decision = "SUSPICIOUS") = (50 <= score /\ score < 80)
        /\ (mapped.Decision = "APPROVED") = (score < 50)
        /\ \A p \in C3_Pairs :
               score = p[1] => mapped.RiskLevel = p[2] /\ mapped.Decision = p[3]

C3_Witness ==
    /\ mapped # Nil
    /\ score = 59
    /\ mapped.RiskLevel = "MEDIUM"
    /\ mapped.Decision = "SUSPICIOUS"

C5_ScoreInRange ==
    /\ Calculate(sctx) \in 0..100
    /\ result # Nil => result.RiskScore \in 0..100
    /\ Returned => ret.result.RiskScore \in 0..100

\* a context whose accumulated sum is negative
C5_Witness ==
    /\ Returned
    /\ RawScore(sctx) < 0
    /\ ret.result.RiskScore = 0

(***************************************************************************)
(* Properties of the concurrent Screen call                                *)
(***************************************************************************)
\* a collaborator method was called and returned an error
CallFailed(a) == a # NotCalled /\ a.err = Err

\* every collaborator answers with a value or with an error (the repository
\* does not answer "no profile, no error")
ValueOrError == env.profile # Answer(Nil)

\* the number of steps the checks, Screen and the deadline timer can still take
StepsLeft(p) ==
    CASE p = "start" -> 5 [] p = "lock" -> 4 [] p = "assign" -> 3
      [] p = "append" -> 2 [] p = "unlock" -> 1 [] OTHER -> 0

MainStepsLeft(p) ==
    CASE p = "wait" -> 6 [] p = "score_lock" -> 5 [] p = "score" -> 4
      [] p = "score_unlock" -> 3 [] p = "record" -> 2 [] p = "return" -> 1
      [] OTHER -> 0

RECURSIVE SumSteps(_)
SumSteps(S) ==
    IF S = {} THEN 0
    ELSE LET t == CHOOSE x \in S : TRUE
         IN  StepsLeft(pc[t]) + SumSteps(S \ {t})

Remaining == SumSteps(Checks) + MainStepsLeft(mainPc) + (IF ctxDone THEN 0 ELSE 1)

\* some goroutine of the call can take a step (a check that has not called
\* its checker yet always can)
CanStep == pc["ofac"] = "start" \/ pc["pep"] = "start" \/ ENABLED OtherSteps

Scoring == mainPc \in {"score", "score_unlock", "record", "return", "returned"}

FactorTags(fs) == {fs[i].Factor : i \in DOMAIN fs}

\* C6 (as claimed): when a collaborator call of a check returned an error, the
\* check's context field is unset when the scorer runs, the check appended no
\* risk factor, and the result has no ofac_match / pep_match for a failed
\* OFAC / PEP check
C6_FailedCheckLeavesNoTrace ==
    Scoring =>
        /\ (CallFailed(local["ofac"].exact) \/ CallFailed(local["ofac"].fuzzy)) =>
               /\ sctx.OFACResult = Nil
               /\ "OFAC_MATCH" \notin FactorTags(sctx.RiskFactors)
               /\ result # Nil => result.OFACMatch = Nil
        /\ (CallFailed(local["pep"].exact) \/ CallFailed(local["pep"].fuzzy)) =>
               /\ sctx.PEPResult = Nil
               /\ "PEP_MATCH" \notin FactorTags(sctx.RiskFactors)
               /\ result # Nil => result.PEPMatch = Nil
        /\ local["profile"].err = Err =>
               /\ sctx.RiskProfile = Nil
               /\ FactorTags(sctx.RiskFactors)
                      \cap {"USER_WATCHLIST", "USER_PEP", "PRIOR_SARS"} = {}
        /\ local["velocity"].err = Err => sctx.VelocityData = Nil
        /\ local["patterns"].err = Err =>
               /\ sctx.PatternMatches = <<>>
               /\ "STRUCTURING" \notin FactorTags(sctx.RiskFactors)

\* C7 (as claimed): once cancellation is signalled, a check whose collaborator
\* call has not returned yet goes on to return without entering the section
\* that assigns its field and appends its risk factors
C7_CancelledCheckContributesNothing ==
    [][\A t \in Checks :
          (ctxDone /\ pc[t] = "start") => pc'[t] \in {"start", "done"}]_vars

\* C8 (as claimed): once the deadline has expired Screen leaves g.Wait() and
\* goes on to score, whether or not every check has returned
C8_ProceedsAtDeadline ==
    (ctxDone /\ mainPc = "wait") => ENABLED Wait

\* C9: the scorer starts only after all five checks have terminated, no check
\* writes to the context during or after scoring, and the risk factors of the
\* result are the ones the score was computed from
C9_ScorerAfterJoin ==
    /\ mainPc \in {"score_lock", "score", "score_unlock", "record", "return", "returned"} =>
           \A t \in Checks : pc[t] = "done"
    /\ result # Nil =>
           /\ result.RiskFactors = sctx.RiskFactors
           /\ result.RiskScore = IF ExactOFAC(sctx) THEN 100 ELSE Calculate(sctx)

\* the deadline expired and checks of four kinds had still appended factors
C9_Witness ==
    /\ Returned
    /\ ctxDone
    /\ Len(ret.result.RiskFactors) >= 5
    /\ ret.result.PatternMatches # <<>>

InSection(t) == pc[t] \in {"assign", "append", "unlock", "panic"}
MainInSection == mainPc \in {"score", "score_unlock"}

\* the check has finished its writes to the context
Wrote(t) ==
    /\ pc[t] \in {"unlock", "done"}
    /\ local[t].err = Nil
    /\ t # "patterns" => local[t].res # Nil

RECURSIVE SumLen(_)
SumLen(S) ==
    IF S = {} THEN 0
    ELSE LET t == CHOOSE x \in S : TRUE
         IN  Len(NewFactors(t, local[t].res)) + SumLen(S \ {t})

\* C10: every write of a context field by a check and the scorer's read happen
\* with the context mutex held by that task, at most one task is inside such a
\* section at a time, and no risk-factor append is lost
C10_ContextUnderMutex ==
    /\ \A t \in Checks : InSection(t) => mu = t
    /\ MainInSection => mu = "main"
    /\ Cardinality({t \in Checks : InSection(t)}) + (IF MainInSection THEN 1 ELSE 0) <= 1
    /\ \A t \in Checks :
           Wrote(t) => \A i \in DOMAIN NewFactors(t, local[t].res) :
                           NewFactors(t, local[t].res)[i] \in Range(sctx.RiskFactors)
    /\ Len(sctx.RiskFactors) = SumLen({t \in Checks : Wrote(t)})

\* a check is about to append after another one's factors while two more wait
\* for the mutex
C10_Witness ==
    \E t \in Checks :
        /\ pc[t] = "append"
        /\ mu = t
        /\ local[t].rf # <<>>
        /\ NewFactors(t, local[t].res) # <<>>
        /\ Cardinality({u \in Checks : pc[u] = "lock"}) >= 2

(***************************************************************************)
(* Properties of the risk calculator                                       *)
(***************************************************************************)
Clamp(n) == IF n > 100 THEN 100 ELSE IF n < 0 THEN 0 ELSE n

\* the total the scoring rules prescribe for a context, term by term
PrescribedTotal(c) ==
    LET t == c.Transaction
        v == c.VelocityData
        p == c.RiskProfile
        country == IF GetCounterpartyCountry(t) \in HighRiskCountries THEN 20 ELSE 0
        border == IF IsCrossBorder(t) THEN 5 ELSE 0
        amount == IF t.Amount >= 50000 THEN 15
                  ELSE IF t.Amount >= 10000 THEN 10 ELSE 0
        amountSpike ==
            IF v # Nil /\ v.AvgDailyAmount > 0
            THEN IF v.AmountDay + t.Amount >= VelocitySpikeMultiplier * v.AvgDailyAmount
                 THEN 20
                 ELSE IF v.AmountDay + t.Amount >= 5 * v.AvgDailyAmount THEN 10 ELSE 0
            ELSE 0
        countSpike ==
            IF v # Nil /\ v.AvgDailyTxCount > 0
               /\ v.TxCountDay + 1 >= VelocitySpikeMultiplier * v.AvgDailyTxCount
            THEN 10 ELSE 0
        profile ==
            IF p # Nil
            THEN GoDiv(GoDiv(p.CountryRisk + p.OccupationRisk + p.TransactionRisk
                             + p.BehavioralRisk + p.RelationshipRisk, 5), 5)
                 + min(p.BlockedTxCount * 5, 15) + min(p.InvestigationCount * 3, 10)
            ELSE 0
    IN  SumWeights(c.RiskFactors) + country + border + amount
        + amountSpike + countSpike + profile

Rescored == mainPc = "scored" /\ out # Nil

\* C12 (as claimed): appending a factor with a positive weight never lowers
\* the score, and leaves it equal only when it was already 100
C12_StrictUnlessCapped ==
    Rescored =>
        /\ score >= out.before
        /\ score = out.before => out.before = 100

\* C12 (amended): appending a factor with a positive weight never lowers the
\* score; it leaves it equal only when it was already 100 or when the total
\* with the new factor is still at or below 0, where the floor holds it at 0
C12_MonotoneUnlessClamped ==
    Rescored =>
        /\ score >= out.before
        /\ score = out.before =>
               \/ out.before = 100
               \/ score = 0 /\ PrescribedTotal(sctx) <= 0

\* a context whose total is still negative after the factor was appended
C12_Witness ==
    /\ Rescored
    /\ arg.Weight > 0
    /\ PrescribedTotal(sctx) < 0
    /\ out.before = 0
    /\ score = 0

(***************************************************************************)
(* Properties of the result of Screen                                      *)
(***************************************************************************)
\* C13 (as claimed): whenever the pattern detector answers with a STRUCTURING
\* match of confidence 0.9, the returned result holds a STRUCTURING risk
\* factor of weight 27 and its decision is SUSPICIOUS or BLOCKED, whatever
\* the rest of the context
C13_StructuringAtLeastSuspicious ==
    (Returned /\ env.patterns = Answer(<<Structuring9>>)) =>
        /\ Factor("STRUCTURING", 27) \in Range(ret.result.RiskFactors)
        /\ ret.result.Decision \in {"SUSPICIOUS", "BLOCKED"}

\* the velocity cache answered with data whose amount ratio reaches the multiplier
AmountSpike(c) ==
    /\ c.VelocityData # Nil
    /\ c.VelocityData.AvgDailyAmount > 0
    /\ c.VelocityData.AmountDay + c.Transaction.Amount
           >= VelocitySpikeMultiplier * c.VelocityData.AvgDailyAmount

\* C14 (as claimed): what the scorer adds for a feature of the transaction is
\* listed in the result's risk factors: with a PEP match, an amount of at
\* least 50000 and different sender and receiver countries the list holds
\* PEP_MATCH 30, HIGH_AMOUNT 15 and CROSS_BORDER 5, and with a velocity ratio
\* at or above the multiplier it holds a velocity-spike entry of weight 20
C14_ContributionsListed ==
    Returned =>
        /\ (/\ ret.result.PEPMatch # Nil
            /\ ret.result.PEPMatch.Matched
            /\ sctx.Transaction.Amount >= 50000
            /\ IsCrossBorder(sctx.Transaction)) =>
               {Factor("PEP_MATCH", 30), Factor("HIGH_AMOUNT", 15),
                Factor("CROSS_BORDER", 5)} \subseteq Range(ret.result.RiskFactors)
        /\ AmountSpike(sctx) =>
               Factor("VELOCITY_SPIKE", 20) \in Range(ret.result.RiskFactors)

(***************************************************************************)
(* Properties of normalizeName                                             *)
(***************************************************************************)
NormalizedTwice == out # Nil /\ "twice" \in DOMAIN out

\* C15: normalizeName is idempotent: normalizing what normalizeName returned
\* gives it back unchanged, for names with upper and lower case letters,
\* digits, spaces, dots, other punctuation and honorifics anywhere, repeated
C15_NormalizeIdempotent ==
    NormalizedTwice => out.twice = out.once

\* a repeated honorific, of which the first pass trims one and keeps the
\* letters of the other
C15_Witness ==
    /\ NormalizedTwice
    /\ arg = <<"m", "r", ".", "m", "r", ".", " ", "A">>
    /\ out.once = <<"m", "r", " ", "a">>
    /\ out.twice = out.once

(***************************************************************************)
(* Properties of jaroWinkler                                               *)
(***************************************************************************)
\* C16 (as claimed): jaroWinkler(x, x) is 1.0 for every non-empty x, and
\* jaroWinkler is 0.0 whenever either argument is empty, the other being
\* anything, empty included
C16_IdenticalOneEmptyZero ==
    out # Nil =>
        /\ (arg.s1 = arg.s2 /\ arg.s1 # <<>>) => out = One
        /\ (arg.s1 = <<>> \/ arg.s2 = <<>>) => out = Zero

(***************************************************************************)
(* Properties of OFACChecker.Check and PEPChecker.Check                    *)
(***************************************************************************)
Checked(checker) == out # Nil /\ env.checker = checker

\* the loaded entries whose name, or one of whose aliases, normalizes to the
\* same string as the name
Carriers(name) ==
    {e \in Range(env.all.res) :
        \/ normalizeName(e.Name) = normalizeName(name)
        \/ \E i \in DOMAIN e.Aliases : normalizeName(e.Aliases[i]) = normalizeName(name)}

\* C17: after a successful LoadIndex, OFACChecker.Check on a name whose
\* normalized form is that of a loaded entry's name or alias returns
\* Matched, EXACT, score 1.0 and the name of the entry the name or alias
\* belongs to, and calls neither method of the sanctions cache
C17_IndexHitExactNoCache ==
    (Checked("ofac") /\ mainPc = "loaded" /\ Carriers(arg) # {}) =>
        /\ out.err = Nil
        /\ out.res.Matched
        /\ out.res.MatchType = "EXACT"
        /\ out.res.MatchScore = One
        /\ out.res.SDNName \in {e.Name : e \in Carriers(arg)}
        /\ out.exact = NotCalled
        /\ out.fuzzy = NotCalled

\* a hit through an alias only, with a cache that would have named another entry
C17_Witness ==
    /\ Checked("ofac")
    /\ mainPc = "loaded"
    /\ arg = NameAlMo
    /\ env.exact = Answer(EntryAl("ofac"))
    /\ out.res.MatchType = "EXACT"
    /\ out.res.SDNName = NameMo
    /\ out.exact = NotCalled

\* the counterparty name of the screened transaction is empty: the receiver's
\* name of an OUTBOUND transaction, the sender's name otherwise
EmptyCounterparty ==
    (IF env.tx.Direction = "OUTBOUND" THEN env.tx.ReceiverName ELSE env.tx.SenderName) = <<>>

\* C18: with an empty counterparty name the OFAC and the PEP check of Screen
\* call no cache method and no checker (so no index is consulted), append no
\* OFAC_MATCH or PEP_MATCH factor, and the result reports no OFAC or PEP
\* match; and Check("") of either checker returns Matched = false without a
\* cache call, whatever the index and the cache hold
C18_EmptyNameShortCircuits ==
    /\ EmptyCounterparty =>
           /\ \A t \in {"ofac", "pep"} :
                  /\ pc[t] \in {"start", "done"}
                  /\ local[t] = NoLocal(t)
           /\ sctx.OFACResult = Nil /\ sctx.PEPResult = Nil
           /\ FactorTags(sctx.RiskFactors) \cap {"OFAC_MATCH", "PEP_MATCH"} = {}
           /\ result # Nil => result.OFACMatch = Nil /\ result.PEPMatch = Nil
           /\ Returned => ret.result.OFACMatch = Nil /\ ret.result.PEPMatch = Nil
    /\ LET o == OFACCheck(<<>>, exactIndex, env.ofacExact, env.ofacFuzzy)
           p == PEPCheck(<<>>, pepIndex, env.pepExact, env.pepFuzzy)
       IN  /\ ~o.res.Matched /\ o.err = Nil /\ o.exact = NotCalled /\ o.fuzzy = NotCalled
           /\ ~p.res.Matched /\ p.err = Nil /\ p.exact = NotCalled /\ p.fuzzy = NotCalled

\* a transaction without a counterparty name screened while the indexes are
\* loaded and both caches would answer with an entry
C18_Witness ==
    /\ Returned
    /\ EmptyCounterparty
    /\ DOMAIN exactIndex # {} /\ DOMAIN pepIndex # {}
    /\ env.ofacExact = Answer(SDNAl) /\ env.pepExact = Answer(PEPAl)
    /\ ret.result.OFACMatch = Nil /\ ret.result.PEPMatch = Nil
    /\ ret.result.RiskFactors # <<>>

\* one of the candidates the fuzzy lookup answered with is similar enough to
\* the normalized name
SomeCandidateQualifies ==
    /\ env.fuzzy.err = Nil
    /\ \E i \in DOMAIN env.fuzzy.res :
           FracGeq(jaroWinkler(normalizeName(arg), env.fuzzy.res[i].NormalizedName),
                   FuzzyThreshold)

\* C19 (as claimed): either checker returns a FUZZY match only with a score at
\* or above the threshold, and returns no match when there is no exact hit
\* and no candidate whose jaroWinkler similarity reaches the threshold
C19_FuzzyOnlyAboveThreshold ==
    out # Nil =>
        /\ (out.res.Matched /\ out.res.MatchType = "FUZZY") =>
               FracGeq(out.res.MatchScore, FuzzyThreshold)
        /\ (out.res.MatchType # "EXACT" /\ ~SomeCandidateQualifies) => ~out.res.Matched

\* C20 (as claimed): whenever the exact lookup, the fuzzy lookup or both of
\* the sanctions cache return an error during OFACChecker.Check, Check returns
\* Matched = false and a nil error
C20_CacheErrorMeansNoMatch ==
    (Checked("ofac") /\ (CallFailed(out.exact) \/ CallFailed(out.fuzzy))) =>
        /\ ~out.res.Matched
        /\ out.err = Nil

(***************************************************************************)
(* Properties of the index under reload                                    *)
(***************************************************************************)
OldIndex == LoadIndex(env.old)
NewIndex == LoadIndex(env.all.res)
Looked(t) == pc[t] \in {"unlock", "done"}

\* C21: a Check running beside LoadIndex looks its name up in the complete
\* index of the earlier load or in the complete index of the new load, never
\* in the map while it is being rebuilt
C21_LookupSeesWholeIndex ==
    \A t \in Checkers :
        Looked(t) =>
            /\ \/ local[t].seen = OldIndex
               \/ env.all.err = Nil /\ local[t].seen = NewIndex
            /\ local[t].res = exactMatch(local[t].seen, local[t].name)

\* one Check looked up in the old index, the other in the new one
C21_Witness ==
    /\ Looked("check1") /\ Looked("check2")
    /\ env.all.err = Nil
    /\ OldIndex # EmptyIndex /\ NewIndex # EmptyIndex /\ OldIndex # NewIndex
    /\ local["check1"].seen = OldIndex
    /\ local["check2"].seen = NewIndex
    /\ pc["load"] = "done"

(***************************************************************************)
(* Properties of determineRiskCategory                                     *)
(***************************************************************************)
\* the lower-case form of the positions, as strings.ToLower gives it
LowerCase(position) ==
    CASE position = "Minister" -> "minister"
      [] position = "HEAD OF STATE" -> "head of state"
      [] position = "Senior Judge" -> "senior judge"
      [] OTHER -> position

\* C22: the category is FORMER_PEP for an inactive entry, else HIGH_RISK_PEP
\* for a position that is on the list when letter case is ignored, else
\* FOREIGN_PEP for category foreign, else DOMESTIC_PEP
C22_PositionIgnoresCase ==
    out # Nil =>
        out.RiskCategory =
              IF ~arg.IsActive THEN "FORMER_PEP"
              ELSE IF LowerCase(arg.Position) \in highRiskPositions THEN "HIGH_RISK_PEP"
              ELSE IF arg.Category = "foreign" THEN "FOREIGN_PEP"
              ELSE "DOMESTIC_PEP"

(***************************************************************************)
(* Properties of the locks                                                 *)
(***************************************************************************)
\* the locks task t holds, and the locks it is about to take
Holds(t) ==
    {l \in {"ctx"} : mu = t}
    \cup {l \in IndexLocks \cup {"latency"} : RW(l).writer = t \/ t \in RW(l).readers}

Wants(t) == {e.lock : e \in Edges(t, "Lock") \cup Edges(t, "RLock")}

LocksDone == \A t \in LockTasks : pc[t] = "done"

\* C23: no task holds or takes the context mutex together with an index
\* lock, a task holding the latency lock takes no other lock, and as long as
\* a task has not returned some task can step
C23_LockOrderNoDeadlock ==
    /\ \A t \in LockTasks :
           LET both == Holds(t) \cup Wants(t)
           IN  /\ "ctx" \in both => both \cap IndexLocks = {}
               /\ "latency" \in Holds(t) => both = {"latency"}
    /\ LocksDone \/ ~Running \/ ENABLED NextLocks

\* a check waits for the context mutex another holds while a reload waits
\* for the index lock a reader holds
C23_Witness ==
    /\ mu = "profile" /\ pc["velocity"] = "start"
    /\ "ofac" \in RW("ofacIndex").readers /\ "loadOFAC" \in RW("ofacIndex").waiting
    /\ pc["pep"] = "checked"

(***************************************************************************)
(* Properties of the telemetry                                             *)
(***************************************************************************)
Completed == Cardinality({s \in Screens : pc[s] = "done"})

\* 0.9 * old + 0.1 * duration, folded over the durations in order
RECURSIVE Smoothed(_)
Smoothed(durations) ==
    IF durations = <<>> THEN Zero
    ELSE LET old == Smoothed(SubSeq(durations, 1, Len(durations) - 1))
             d == durations[Len(durations)]
         IN  Frac(9 * old.num + d * old.den, 10 * old.den)

\* C24: whenever no call is inside recordLatency the count is the number of
\* completed Screen calls and the average is 0.9*old + 0.1*duration folded
\* over exactly their durations; what GetScreeningCount returns is the
\* number of calls completed at that moment
C24_TelemetryOncePerScreen ==
    /\ latencyMu.writer = Nobody =>
           /\ screeningCount = Completed
           /\ Len(out) = Completed
           /\ FracEq(avgLatencyMs, Smoothed(out))
    /\ local["metrics"].read => local["metrics"].count = local["metrics"].completed

\* the three calls have completed with differing durations, and the reader
\* saw a count in between
C24_Witness ==
    /\ Completed = 3
    /\ screeningCount = 3
    /\ out = <<250, 12, 250>>
    /\ local["metrics"].count = 2

(***************************************************************************)
(* Further properties of the result of Screen                              *)
(***************************************************************************)
\* C25: a result whose OFAC match says Matched, whatever its match type,
\* carries the decision BLOCKED
C25_AnyOFACMatchBlocks ==
    (Returned /\ ret.result.OFACMatch # Nil /\ ret.result.OFACMatch.Matched)
        => ret.result.Decision = "BLOCKED"

\* C26: when GetByUserID answers with no profile and no error, the profile
\* check does not panic, does not leave the context mutex held, and Screen
\* returns a result without a profile contribution
C26_NoProfileTreatedAsAbsent ==
    (env.profile.err = Nil /\ env.profile.res = Nil) =>
        /\ pc["profile"] # "panic"
        /\ mainPc # "crashed"
        /\ Returned =>
               /\ ret.result # Nil
               /\ FactorTags(ret.result.RiskFactors)
                      \cap {"USER_WATCHLIST", "USER_PEP", "PRIOR_SARS"} = {}

\* what a check obtains from its collaborators, whenever it runs
Obtained(t) ==
    LET name == GetCounterpartyName(env.tx)
    IN  CASE t = "ofac" ->
                 IF name = <<>> THEN Failed(Nil)
                 ELSE OFACCheck(name, LoadIndex(env.ofacList), env.ofacExact, env.ofacFuzzy)
          [] t = "pep" ->
                 IF name = <<>> THEN Failed(Nil)
                 ELSE PEPCheck(name, LoadIndex(env.pepList), env.pepExact, env.pepFuzzy)
          [] t = "profile" -> env.profile
          [] t = "velocity" -> env.velocity
          [] t = "patterns" -> env.patterns

\* the context after the checks have run one after the other in the given order
RECURSIVE RunInOrder(_, _)
RunInOrder(c, order) ==
    IF order = <<>> THEN c
    ELSE LET t == Head(order)
             a == Obtained(t)
             next == IF a.err # Nil THEN c
                     ELSE [AssignField(c, t, a.res) EXCEPT
                               !.RiskFactors = c.RiskFactors \o NewFactors(t, a.res)]
         IN  RunInOrder(next, Tail(order))

\* a check that dereferences a nil result ends the process
Panicking ==
    \E t \in {"ofac", "pep", "profile"} : Obtained(t).err = Nil /\ Obtained(t).res = Nil

OneAfterTheOther ==
    calculateResult(RunInOrder(NewContext(env.tx),
                               <<"ofac", "pep", "profile", "velocity", "patterns">>))

FactorBag(fs) ==
    [f \in {fs[i] : i \in DOMAIN fs} |-> Cardinality({i \in DOMAIN fs : fs[i] = f})]

\* C27: whatever the interleaving of the five checks, the result Screen
\* returns has the score, level, decision and multiset of risk factors of the
\* run in which the checks execute one after the other, and it returns none
\* when that run panics
C27_ResultIndependentOfSchedule ==
    Returned =>
        /\ ~Panicking
        /\ ret.result.RiskScore = OneAfterTheOther.RiskScore
        /\ ret.result.RiskLevel = OneAfterTheOther.RiskLevel
        /\ ret.result.Decision = OneAfterTheOther.Decision
        /\ FactorBag(ret.result.RiskFactors) = FactorBag(OneAfterTheOther.RiskFactors)

\* a result whose risk factors came in another order than in the sequential run
C27_Witness ==
    /\ Returned
    /\ Len(ret.result.RiskFactors) >= 2
    /\ ret.result.RiskFactors # OneAfterTheOther.RiskFactors
    /\ ret.result.RiskScore > 0

(***************************************************************************)
(* Further properties of the checkers                                      *)
(***************************************************************************)
\* the index LoadIndex filled
LoadedIndex == IF env.checker = "ofac" THEN exactIndex ELSE pepIndex

\* C28: after a successful LoadIndex a lookup of normalizeName(E.Name)
\* finds E itself, for every entry E of the loaded list
C28_EveryEntryUnderItsOwnKey ==
    mainPc = "loaded" =>
        \A i \in DOMAIN env.all.res :
            LET E == env.all.res[i]
            IN  exactMatch(LoadedIndex, normalizeName(E.Name)) = [entry |-> E, found |-> TRUE]

(***************************************************************************)
(* Further properties of normalizeName                                     *)
(***************************************************************************)
\* C29: a space before or after a name does not change what normalizeName
\* returns, also for names that begin with an honorific
C29_PaddingChangesNothing ==
    out # Nil => out.leading = out.plain /\ out.trailing = out.plain

WithAssociates == out # Nil /\ "associates" \in DOMAIN out

\* the entry the match of Check comes from: the index entry under the
\* normalized name, else the entry of the exact cache lookup, else the first
\* fuzzy candidate
MatchedEntry ==
    LET m == exactMatch(pepIndex, normalizeName(arg))
    IN  IF m.found THEN m.entry
        ELSE IF env.exact.err = Nil /\ env.exact.res # Nil THEN env.exact.res
        ELSE env.fuzzy.res[1]

\* C30: when CheckWithAssociates reports a match, the associates it returns
\* are those of the entry the match comes from, whichever path matched
C30_AssociatesOfMatchedEntry ==
    (WithAssociates /\ out.err = Nil /\ out.res.Matched) =>
        out.associates = MatchedEntry.Associates

====
